---- MODULE Spec2Model ----
(***************************************************************************)
(* Model of the network discovery engine of                                *)
(* src/zabbix_server/discoverer/discoverer.c: the discovery manager thread *)
(* (discoverer_thread, process_results, process_discovery), the worker     *)
(* threads (discoverer_worker_entry and the net checks), the shared job    *)
(* queue guarded by the queue mutex and the result cache guarded by        *)
(* results_lock; and of the proxy group service of                         *)
(* src/zabbix_server/pgmanager/pg_service.c: the reply to a sync request   *)
(* of a proxy, pg_service_init() and the service thread.                   *)
(***************************************************************************)
EXTENDS Integers, Sequences, FiniteSets, TLC

(***************************************************************************)
(* Bounds of the model.                                                    *)
(***************************************************************************)
NumWorkers == 2
NumRules == 2
MaxIps == 2
MaxChecks == 1
MaxWorkersMax == 1
\* the number of inputs of the environment in one run: rules admitted, rules
\* failed and checks ended with an error
MaxEvents == 2
\* the number of revision changes in one run
MaxRev == 1
\* scaled-down values of DISCOVERER_QUEUE_MAX_SIZE and DISCOVERER_BATCH_RESULTS_NUM
DISCOVERER_QUEUE_MAX_SIZE == 3
DISCOVERER_BATCH_RESULTS_NUM == 2
\* zbx_uint64_t arithmetic is modelled at a reduced width: values are taken modulo 2^UintBits
UintBits == 5
\* the hostmap revisions of proxies and proxy groups, the clock, and the number of
\* hosts in proxy->deleted_group_hosts
MaxRevision == 3
MaxTime == 3
MaxDeleted == 2
\* scaled-down value of SEC_PER_DAY
SEC_PER_DAY == 2
\* the number of requests the service thread handles in one run
MaxRequests == 3

(***************************************************************************)
(* Program constants.                                                      *)
(***************************************************************************)
SNMPV3_WORKERS_TWO == 1 + 1
SNMPV3_WORKERS_MAX == 1
DOBJECT_STATUS_UP == 0
DOBJECT_STATUS_DOWN == 1

UintMod == 2 ^ UintBits

Workers == 1..NumWorkers
Rules == 1..NumRules
NoThread == 0
SchedId == NumWorkers + 1
\* ip 0 stands for the empty ip string "" of the rule-level entry
EmptyIp == 0
Ips == 1..MaxIps
Keys == Rules \X (0..MaxIps)
NoCount == -1

CheckTypes == {"LDAP", "ICMP", "SNMPv3", "TCP"}

\* unsigned subtraction and addition of zbx_uint64_t
USub(a, b) == (a - b + UintMod) % UintMod
UAdd(a, b) == (a + b) % UintMod

dcheck_is_async(type) == type # "LDAP"

VARIABLES
    queue,              \* queue.jobs: list of druleids of the queued jobs
    pending,            \* queue.pending_checks_count
    snmpv3_allowed_workers,
    qerrors,            \* queue.errors
    job,                \* the allocated jobs, by druleid (dmanager.job_refs once pushed)
    results,            \* dmanager.results
    counts,             \* dmanager.incomplete_checks_count
    queueLock,          \* holder of the queue mutex
    resultsLock,        \* holder of dmanager.results_lock
    pc, wjob, wtask, werr,    \* worker threads
    runs,               \* history: how often each task of the current job of a rule was dispatched
    spc,                \* position of the discovery manager thread
    rev,                \* revisions of the rules in the configuration cache
    is_drules_rev_updated, del_druleids, drule_errors, incomplete_druleids,
    due, queue_checks_count, jobs, check_counts, err_druleids,
    drules,             \* the discovery rules of the configuration cache
    revs,               \* number of revision changes so far
    purged,             \* history: rules whose job was purged, no job created since
    events,             \* number of inputs of the environment so far
    lastDrain,          \* history: what the last process_results() pass removed from the result cache
    delay,              \* the local variable delay of process_discovery()
    lastQueue,          \* history: the last call of zbx_dc_drule_queue()
    ahead,              \* history: the jobs that were in the queue when the job of a rule was pushed back
    overtaken,          \* history: the jobs still ahead of a job when it was popped again
    hostEvents,         \* history: the host results emitted for the current job of a rule, per ip
    aborted,            \* history: the rules whose last job was aborted
    stop,               \* worker->stop of every worker
    workers_num,        \* queue.workers_num: the workers registered with the queue
    pinged,             \* history: the addresses the check of a worker probed
    timeouts,           \* the checks of the rule process_discovery() resolves the timeouts of
    pgsync,             \* a proxy of the proxy group cache and the sync request it sends
    pgs                 \* the proxy group service: pg_service_init() and the service thread

wvars == <<pc, wjob, wtask, werr, runs, pinged>>
sloc == <<spc, rev, is_drules_rev_updated, del_druleids, drule_errors, incomplete_druleids,
          due, queue_checks_count, jobs, check_counts, err_druleids>>
sloc_but_spc == <<rev, is_drules_rev_updated, del_druleids, drule_errors, incomplete_druleids,
                  due, queue_checks_count, jobs, check_counts, err_druleids>>
svars == <<sloc, events, lastDrain, drules, timeouts, pgsync, pgs, revs, purged, stop, workers_num>>
qvars == <<queue, pending, snmpv3_allowed_workers, qerrors, job>>
rvars == <<results, counts>>
hvars == <<delay, lastQueue, ahead, overtaken, hostEvents, aborted>>
vars == <<qvars, rvars, queueLock, resultsLock, wvars, svars, hvars>>

NoTask == [id |-> 0, ip |-> 0, cnt |-> 0]
NoJob == [live |-> FALSE, status |-> "none", workers_used |-> 0, workers_max |-> 0,
          type |-> "none", nips |-> 0, tasks |-> <<>>, drule_revision |-> 0]
NoResult == [present |-> FALSE, services |-> <<>>]

\* the values of the local variable delay of process_discovery(): not yet
\* assigned, ZBX_DEFAULT_INTERVAL, the update interval of a rule, or whatever an
\* unassigned int holds
UninitDelay == [kind |-> "uninit", druleid |-> 0]
DefaultDelay == [kind |-> "default", druleid |-> 0]
RuleDelay(r) == [kind |-> "rule", druleid |-> r]
AnyDelay == [kind |-> "any", druleid |-> 0]
NoQueue == [druleid |-> 0, delay |-> UninitDelay, cause |-> "none"]

(***************************************************************************)
(* Result cache: the two hashsets keyed by (druleid, ip).                  *)
(***************************************************************************)
\* discoverer_check_count_decrease(): FAIL when the entry is missing or its count is 0
check_count_decrease_any(cs, k) == cs[k] # 0
check_count_decrease_ok(cs, k) == cs[k] # NoCount /\ cs[k] # 0

check_count_decrease(cs, k, count) ==
    IF check_count_decrease_ok(cs, k) THEN [cs EXCEPT ![k] = USub(@, count)] ELSE cs

\* discover_results_host_reg(): upsert of an entry without services
discover_results_host_reg(res, k) ==
    IF res[k].present THEN res ELSE [res EXCEPT ![k] = [present |-> TRUE, services |-> <<>>]]

\* discover_results_move_value(): insert the entry if missing and append the services
discover_results_move_value(res, k, services) ==
    [discover_results_host_reg(res, k) EXCEPT ![k].services = @ \o services]

\* discoverer_task_check_count_get(): the number of checks a task stands for
discoverer_task_check_count_get(task) == task.cnt

\* the locked part of discoverer_net_check_common(): the commit of a service that is up
net_check_common_commit(res, cs, k) ==
    IF check_count_decrease_ok(cs, k)
    THEN [res |-> discover_results_move_value(res, k, <<DOBJECT_STATUS_UP>>),
          cs |-> check_count_decrease(cs, k, 1)]
    ELSE [res |-> res, cs |-> cs]

\* discover_results_merge(): full merge of a finished icmp task over its ip range;
\* hits are the ips that answered
discover_results_merge(res, cs, r, task, nips, hits) ==
    LET dec == discoverer_task_check_count_get(task)
        touched(k) == k[1] = r /\ k[2] \in 1..nips /\ check_count_decrease_ok(cs, k)
        cs2 == [k \in Keys |-> IF touched(k) THEN USub(cs[k], dec) ELSE cs[k]]
        res2 == [k \in Keys |->
                    IF ~touched(k) THEN res[k]
                    ELSE IF k[2] \in hits
                         THEN discover_results_move_value(res, k, <<DOBJECT_STATUS_UP>>)[k]
                         ELSE IF cs2[k] = 0 THEN discover_results_host_reg(res, k)[k]
                              ELSE res[k]]
    IN [res |-> res2, cs |-> cs2]

\* discover_results_partrange_merge(): merge of the results of an async range task;
\* every ip of the slice has processed_checks_per_ip checks done, ups are the ips
\* whose service is up
discover_results_partrange_merge(res, cs, r, nips, ups, processed, checks_per_ip, force) ==
    LET touched(k) == /\ k[1] = r /\ k[2] \in 1..nips
                      /\ (force # 0 \/ processed = checks_per_ip)
                      /\ check_count_decrease_ok(cs, k)
        svc(k) == IF k[2] \in ups THEN <<DOBJECT_STATUS_UP>> ELSE <<DOBJECT_STATUS_DOWN>>
    IN [res |-> [k \in Keys |-> IF touched(k) THEN discover_results_move_value(res, k, svc(k))[k]
                                             ELSE res[k]],
        cs |-> [k \in Keys |-> IF touched(k) THEN USub(cs[k], processed) ELSE cs[k]]]

(***************************************************************************)
(* Queue helpers.                                                          *)
(***************************************************************************)
RemoveAt(s, i) == [j \in 1..(Len(s) - 1) |-> IF j < i THEN s[j] ELSE s[j + 1]]

\* discoverer_queue_pop(): index of the job handed to the worker, 0 when there is none;
\* a job whose next task is an SNMPv3 task is passed over while no SNMPv3 slot is free
queue_pop_eligible(r) ==
    \/ job[r].tasks = <<>>
    \/ job[r].type # "SNMPv3"
    \/ snmpv3_allowed_workers > 0

discoverer_queue_pop ==
    IF \E i \in 1..Len(queue) : queue_pop_eligible(queue[i])
    THEN CHOOSE i \in 1..Len(queue) :
            /\ queue_pop_eligible(queue[i])
            /\ \A j \in 1..(i - 1) : ~queue_pop_eligible(queue[j])
    ELSE 0

\* discoverer_queue_notify(): wakes one of the workers waiting on the queue condition
Notified(p, w) == IF w = 0 THEN p ELSE [p EXCEPT ![w] = "woken"]
Waiters(p) == {w \in Workers : p[w] = "wait"}
NotifyChoices(p) == IF Waiters(p) = {} THEN {0} ELSE Waiters(p)
\* discoverer_queue_notify_all()
NotifiedNobody(p) == p
NotifiedAll(p) == [w \in Workers |-> IF p[w] = "wait" THEN "woken" ELSE p[w]]

\* discoverer_job_tasks_free(): frees the remaining tasks, returns their check count
RECURSIVE SumCnt(_)
SumCnt(tasks) == IF tasks = <<>> THEN 0
                 ELSE discoverer_task_check_count_get(Head(tasks)) + SumCnt(Tail(tasks))

discoverer_job_tasks_all(j) == j.nips * MaxChecks
discoverer_job_tasks_free(j) == SumCnt(j.tasks)

(***************************************************************************)
(* Worker threads: discoverer_worker_entry().                              *)
(***************************************************************************)
\* discoverer_job_remove(): drops the job from job_refs and frees it
discoverer_job_remove(jb, r) == [jb EXCEPT ![r] = NoJob]

\* discoverer_job_abort(): frees the remaining tasks of the job, takes their checks
\* off pending_checks_count and records the error of the rule
job_abort_job(jb, r) == [jb EXCEPT ![r].tasks = <<>>]
job_abort_pending(jb, r, pend) == USub(pend, discoverer_job_tasks_free(jb[r]))
job_abort_errors(errs, r) == Append(errs, [druleid |-> r, error |-> "abort"])

\* the worker is at the head of its loop with the queue mutex: it holds the mutex
\* from the last iteration, or it was woken on the queue condition and takes it
AtLoopHead(w) ==
    \/ pc[w] = "head" /\ queueLock = w
    \/ pc[w] = "woken" /\ queueLock = NoThread

\* while (0 == worker->stop): the worker goes through another iteration of its loop
InLoop(w) == AtLoopHead(w) /\ ~stop[w]

\* history of the queue order when the job of rule r is popped: the jobs that
\* were ahead of it and are still in the queue are recorded as overtaken; r is
\* ahead of no job any more; pushed back, r has the rest of the queue ahead
QueueSet(q) == {q[i] : i \in 1..Len(q)}

ahead_after_pop(r, requeued, rest) ==
    [x \in Rules |-> IF x = r THEN (IF requeued THEN QueueSet(rest) ELSE {})
                              ELSE ahead[x] \ {r}]

overtaken_after_pop(r) ==
    overtaken \cup {[by |-> r, job |-> k, eligible |-> queue_pop_eligible(k)] : k \in ahead[r]}

\* loop head with an empty queue: discoverer_queue_wait() releases the mutex
WorkerWait(w) ==
    /\ InLoop(w)
    /\ discoverer_queue_pop = 0
    /\ pc' = [pc EXCEPT ![w] = "wait"]
    /\ queueLock' = NoThread
    /\ UNCHANGED <<qvars, rvars, resultsLock, wjob, wtask, werr, pinged, runs, svars,
                   hvars>>

\* 0 == job->workers_used: no worker runs a task of the job, it can be removed
job_unused_always(j) == TRUE
job_unused(j) == j.workers_used = 0

\* a job without tasks was popped: remove it, or mark it for removal
WorkerPopEmpty(w) ==
    /\ InLoop(w)
    /\ discoverer_queue_pop # 0
    /\ LET i == discoverer_queue_pop
           r == queue[i]
       IN /\ job[r].tasks = <<>>
          /\ queue' = RemoveAt(queue, i)
          /\ ahead' = ahead_after_pop(r, FALSE, <<>>)
          /\ overtaken' = overtaken_after_pop(r)
          /\ IF job_unused(job[r])
             THEN /\ pc' = [pc EXCEPT ![w] = "reg_lock"]
                  /\ wjob' = [wjob EXCEPT ![w] = r]
                  /\ job' = job
             ELSE /\ job' = [job EXCEPT ![r].status = "removing"]
                  /\ pc' = [pc EXCEPT ![w] = "head"]
                  /\ wjob' = wjob
    /\ queueLock' = w
    /\ UNCHANGED <<pending, snmpv3_allowed_workers, qerrors, rvars, resultsLock,
                   wtask, werr, pinged, runs, svars,
                   delay, lastQueue, hostEvents, aborted>>

\* discoverer_task_pop(): takes the first task off the job
discoverer_task_peek(tasks) == tasks
discoverer_task_pop(tasks) == Tail(tasks)

\* the SNMPv3 slot is taken, under the queue mutex, by the worker that is handed
\* an SNMPv3 task
snmpv3_acquire(type, allowed) == IF type = "SNMPv3" THEN allowed - 1 ELSE allowed

\* queue.pending_checks_count after a task was popped
pending_kept(type, task, pend) == pend
pending_after_pop(type, task, pend) ==
    IF ~dcheck_is_async(type) THEN USub(pend, 1)
    ELSE USub(pend, discoverer_task_check_count_get(task))

\* discoverer_queue_unlock() before the checks are processed: the holder of the
\* queue mutex while the check runs
unlock_skipped(w) == w
unlock_before_check(w) == NoThread

\* discoverer_queue_push(): appends the job at the tail of the queue
discoverer_queue_push_front(q, r) == <<r>> \o q
discoverer_queue_push(q, r) == Append(q, r)

\* the status of the job after a task was popped: the job that takes no more
\* workers waits, the job that was pushed back keeps its status
dispatch_status_kept(status, requeue) == status
dispatch_status(status, requeue) == IF requeue THEN status ELSE "waiting"

\* 0 == job->workers_max || job->workers_used != job->workers_max: the job
\* takes more workers and goes back to the queue
job_takes_workers_always(workers_max, used) == TRUE
job_takes_workers(workers_max, used) == workers_max = 0 \/ used # workers_max

\* a task was popped: account for it, re-queue the job or make it wait, unlock
WorkerDispatch(w) ==
    /\ InLoop(w)
    /\ discoverer_queue_pop # 0
    /\ LET i == discoverer_queue_pop
           r == queue[i]
           task == Head(job[r].tasks)
           used == job[r].workers_used + 1
           requeue == job_takes_workers(job[r].workers_max, used)
       IN /\ job[r].tasks # <<>>
          /\ pending' = pending_after_pop(job[r].type, task, pending)
          /\ snmpv3_allowed_workers' = snmpv3_acquire(job[r].type, snmpv3_allowed_workers)
          /\ job' = [job EXCEPT ![r].tasks = discoverer_task_pop(@),
                                ![r].workers_used = used,
                                ![r].status = dispatch_status(@, requeue)]
          /\ queue' = IF requeue THEN discoverer_queue_push(RemoveAt(queue, i), r)
                                  ELSE RemoveAt(queue, i)
          /\ \E n \in (IF requeue THEN NotifyChoices(pc) ELSE {0}) :
                pc' = [Notified(pc, n) EXCEPT ![w] = "probe"]
          /\ ahead' = ahead_after_pop(r, requeue, RemoveAt(queue, i))
          /\ overtaken' = overtaken_after_pop(r)
          /\ wjob' = [wjob EXCEPT ![w] = r]
          /\ wtask' = [wtask EXCEPT ![w] = task]
          /\ runs' = [runs EXCEPT ![r][task.id] = IF @ < 2 THEN @ + 1 ELSE @]
    /\ queueLock' = unlock_before_check(w)
    /\ UNCHANGED <<qerrors, rvars, resultsLock, werr, pinged, svars,
                   delay, lastQueue, hostEvents, aborted>>

\* discoverer_net_check_common() returns SUCCEED and sets no error, whatever
\* the status of the service is
net_check_common_error_down(status) == status = DOBJECT_STATUS_DOWN
net_check_common_error(status) == FALSE

\* the addresses of a task: the ip of a sync task, the range of an async task
TaskIps(r, task) == IF task.ip # 0 THEN {task.ip} ELSE 1..job[r].nips

\* the checks that read worker->stop while they run: discover_icmp() reads it
\* before it takes the next address of the range and before the last ping
check_reads_stop_all(type) == TRUE
check_reads_stop(type) == type = "ICMP"

\* the addresses a check probes: all addresses of the task, or, for a check that
\* reads the stop flag and finds it set, any part of them
ProbedIps(w) ==
    IF check_reads_stop(job[wjob[w]].type) /\ stop[w]
    THEN SUBSET TaskIps(wjob[w], wtask[w])
    ELSE {TaskIps(wjob[w], wtask[w])}

\* a check that ends without a commit, run without any lock: a sync check whose
\* service is down, or an async range check that fails with an error
WorkerProbeFail(w) ==
    /\ pc[w] = "probe"
    /\ \E ips \in ProbedIps(w) : pinged' = [pinged EXCEPT ![w] = ips]
    /\ job[wjob[w]].type # "ICMP"
    /\ dcheck_is_async(job[wjob[w]].type) => events < MaxEvents
    /\ werr' = [werr EXCEPT ![w] = IF dcheck_is_async(job[wjob[w]].type) THEN TRUE
                                   ELSE net_check_common_error(DOBJECT_STATUS_DOWN)]
    /\ events' = IF dcheck_is_async(job[wjob[w]].type) THEN events + 1 ELSE events
    /\ pc' = [pc EXCEPT ![w] = "finish"]
    /\ UNCHANGED <<qvars, rvars, queueLock, resultsLock, wjob, wtask, runs, sloc, lastDrain, drules, timeouts, pgsync, pgs, stop, workers_num, revs, purged,
                   hvars>>

\* the commit of a check under results_lock, by type of the check; ups are the
\* ips that answered
worker_commit(res, cs, r, type, task, nips, ups) ==
    IF ~dcheck_is_async(type) THEN net_check_common_commit(res, cs, <<r, task.ip>>)
    ELSE IF type = "ICMP" THEN discover_results_merge(res, cs, r, task, nips, ups)
    ELSE discover_results_partrange_merge(res, cs, r, nips, ups, 1, 1, 0)

\* the network part of the check is over (no lock was held while it ran) and its
\* results are committed under results_lock: a sync check commits a service that
\* is up; an icmp sweep merges the hosts that answered, also when a ping failed
\* with an error; a range check merges the services found up or down
WorkerCommit(w) ==
    /\ pc[w] = "probe"
    /\ resultsLock = NoThread
    /\ LET r == wjob[w]
           type == job[r].type
       IN \E ips \in ProbedIps(w), ups \in SUBSET (1..job[r].nips), err \in BOOLEAN :
            /\ ups \subseteq ips
            /\ pinged' = [pinged EXCEPT ![w] = ips]
            /\ ~dcheck_is_async(type) => ups = {wtask[w].ip}
            /\ err => type = "ICMP" /\ events < MaxEvents
            /\ events' = IF err THEN events + 1 ELSE events
            /\ LET m == worker_commit(results, counts, r, type, wtask[w], job[r].nips, ups)
               IN /\ results' = m.res
                  /\ counts' = m.cs
            /\ werr' = [werr EXCEPT ![w] = err]
    /\ resultsLock' = NoThread
    /\ pc' = [pc EXCEPT ![w] = "finish"]
    /\ UNCHANGED <<qvars, queueLock, wjob, wtask, runs, sloc, lastDrain, drules, timeouts, pgsync, pgs, stop, workers_num, revs, purged,
                   hvars>>

\* the SNMPv3 slot is given back by the worker that ran an SNMPv3 task
snmpv3_release(type, allowed) == IF type = "SNMPv3" THEN allowed + 1 ELSE allowed

\* DISCOVERER_JOB_STATUS_WAITING == job->status: the job left the queue when it
\* had all its workers, it goes back to the queue
job_is_waiting_never(j) == FALSE
job_is_waiting_always(j) == TRUE
job_is_waiting(j) == j.status = "waiting"

\* after the check: lock the queue, give the worker slot back, abort the job on
\* error, re-queue a waiting job or remove a finished one
WorkerFinish(w) ==
    /\ pc[w] = "finish"
    /\ queueLock = NoThread
    /\ queueLock' = w
    /\ LET r == wjob[w]
           used == job[r].workers_used - 1
           j1 == [job EXCEPT ![r].workers_used = used]
           j2 == IF werr[w] THEN job_abort_job(j1, r) ELSE j1
       IN /\ pending' = IF werr[w] THEN job_abort_pending(j1, r, pending) ELSE pending
          /\ qerrors' = IF werr[w] THEN job_abort_errors(qerrors, r) ELSE qerrors
          /\ aborted' = IF werr[w] THEN aborted \cup {r} ELSE aborted
          /\ snmpv3_allowed_workers' = snmpv3_release(job[r].type, snmpv3_allowed_workers)
          /\ IF job_is_waiting(j2[r])
             THEN /\ job' = [j2 EXCEPT ![r].status = "queued"]
                  /\ queue' = discoverer_queue_push(queue, r)
                  /\ pc' = [pc EXCEPT ![w] = "head"]
                  /\ wjob' = [wjob EXCEPT ![w] = 0]
             ELSE IF j2[r].status = "removing" /\ used = 0
             THEN /\ job' = j2
                  /\ queue' = queue
                  /\ pc' = [pc EXCEPT ![w] = "reg_lock"]
                  /\ wjob' = wjob
             ELSE /\ job' = j2
                  /\ queue' = queue
                  /\ pc' = [pc EXCEPT ![w] = "head"]
                  /\ wjob' = [wjob EXCEPT ![w] = 0]
    /\ wtask' = [wtask EXCEPT ![w] = NoTask]
    /\ werr' = [werr EXCEPT ![w] = FALSE]
    /\ pinged' = [pinged EXCEPT ![w] = {}]
    /\ UNCHANGED <<rvars, resultsLock, runs, svars,
                   delay, lastQueue, ahead, overtaken, hostEvents>>

\* pthread_mutex_lock(&dmanager.results_lock) before the job is removed; the
\* worker holds the queue mutex here
WorkerRegLock(w) ==
    /\ pc[w] = "reg_lock"
    /\ queueLock = w
    /\ resultsLock = NoThread
    /\ resultsLock' = w
    /\ pc' = [pc EXCEPT ![w] = "reg_cs"]
    /\ UNCHANGED <<qvars, rvars, queueLock, wjob, wtask, werr, pinged, runs, svars,
                   hvars>>

\* registers the rule-level entry (druleid, "") and removes the job
WorkerReg(w) ==
    /\ pc[w] = "reg_cs"
    /\ resultsLock = w
    /\ results' = discover_results_host_reg(results, <<wjob[w], EmptyIp>>)
    /\ resultsLock' = NoThread
    /\ job' = discoverer_job_remove(job, wjob[w])
    /\ pc' = [pc EXCEPT ![w] = "head"]
    /\ wjob' = [wjob EXCEPT ![w] = 0]
    /\ UNCHANGED <<queue, pending, snmpv3_allowed_workers, qerrors, counts, queueLock,
                   wtask, werr, pinged, runs, svars,
                   hvars>>

\* the loop ends with the stop flag set: discoverer_queue_deregister_worker()
\* and discoverer_queue_unlock(), the thread ends
WorkerExit(w) ==
    /\ AtLoopHead(w)
    /\ stop[w]
    /\ workers_num' = workers_num - 1
    /\ pc' = [pc EXCEPT ![w] = "exit"]
    /\ queueLock' = NoThread
    /\ UNCHANGED <<qvars, rvars, resultsLock, wjob, wtask, werr, pinged, runs, sloc, events,
                   lastDrain, drules, timeouts, pgsync, pgs, revs, purged, stop, hvars>>

(***************************************************************************)
(* Result drainer: process_results() and process_services().               *)
(***************************************************************************)
\* process_services(): the host status computed over the services of one result
services_status_last(services, host_status) ==
    IF services = <<>> THEN host_status ELSE services[Len(services)]

RECURSIVE services_status(_, _)
services_status(services, host_status) ==
    IF services = <<>> THEN host_status
    ELSE LET st == Head(services)
         IN services_status(Tail(services),
                IF (host_status = -1 \/ st = DOBJECT_STATUS_UP) /\ host_status # st
                THEN st ELSE host_status)

process_services(services) ==
    IF Len(services) = 0 THEN DOBJECT_STATUS_DOWN ELSE services_status(services, -1)

\* the orders in which the results hashset is iterated
RECURSIVE SeqOfKeys(_, _)
SeqOfKeys(r, ip) ==
    IF r > NumRules THEN <<>>
    ELSE IF ip > MaxIps THEN SeqOfKeys(r + 1, 0)
    ELSE <<(<<r, ip>>)>> \o SeqOfKeys(r, ip + 1)

Reverse(s) == [i \in 1..Len(s) |-> s[Len(s) + 1 - i]]
IterOrders == {SeqOfKeys(1, 0), Reverse(SeqOfKeys(1, 0))}

\* process_results_incompletecheckscount_remove()
incompletecheckscount_keep(cs, del) == cs
incompletecheckscount_remove(cs, del) ==
    [k \in Keys |-> IF k[1] \in del THEN NoCount ELSE cs[k]]

ErrorRules(errs) == {errs[i].druleid : i \in 1..Len(errs)}

\* process_results_incompleteresult_remove()
incompleteresult_remove_results(res, errs) ==
    [k \in Keys |-> IF k[1] \in ErrorRules(errs) THEN NoResult ELSE res[k]]
incompleteresult_keep_counts(cs, errs) == cs
incompleteresult_remove_counts(cs, errs) ==
    [k \in Keys |-> IF k[1] \in ErrorRules(errs) THEN NoCount ELSE cs[k]]

\* the condition of process_results() under which a result stays in the cache
result_incomplete_batch(cs, k, res_check_count) ==
    DISCOVERER_BATCH_RESULTS_NUM <= res_check_count

result_incomplete(cs, k, res_check_count) ==
    \/ DISCOVERER_BATCH_RESULTS_NUM <= res_check_count
    \/ (cs[k] # NoCount /\ cs[k] # 0)

\* the result belongs to a rule of del_druleids: it is cleared, not moved out
result_deleted_never(k, del) == FALSE
result_deleted(k, del) == k[1] \in del

\* the loop of process_results() over the results hashset; st.cnt0 are the counts
\* at the start of the pass (history)
RECURSIVE results_loop(_, _, _)
results_loop(ord, del, st) ==
    IF ord = <<>> THEN st
    ELSE LET k == Head(ord)
             r == st.res[k]
             n == Len(r.services)
         IN results_loop(Tail(ord), del,
              IF ~r.present THEN st
              ELSE IF result_deleted(k, del)
              THEN [st EXCEPT !.res[k] = NoResult,
                              !.log = @ \cup {[druleid |-> k[1], ip |-> k[2], kind |-> "discard",
                                               cnt |-> st.cnt0[k], status |-> -1, error |-> "none",
                                               services |-> <<>>]}]
              ELSE IF result_incomplete(st.cs, k, st.res_check_count)
              THEN [st EXCEPT !.res_check_total = @ + n,
                              !.incomplete = @ \cup {k[1]}]
              ELSE [st EXCEPT !.res_check_total = @ + n,
                              !.res_check_count = @ + n,
                              !.cs[k] = NoCount,
                              !.res[k] = NoResult,
                              !.out = Append(@, [druleid |-> k[1], ip |-> k[2],
                                                 services |-> r.services, cnt |-> st.cnt0[k]])])

\* zbx_vector_discoverer_drule_error_search(): index of the first error of the rule, 0 if none
drule_error_search(errs, r) ==
    IF \E i \in 1..Len(errs) : errs[i].druleid = r
    THEN CHOOSE i \in 1..Len(errs) : errs[i].druleid = r /\ \A j \in 1..(i - 1) : errs[j].druleid # r
    ELSE 0

\* the second loop of process_results(): hands the moved results to persistence
RECURSIVE results_emit(_, _, _)
results_emit(out, errs, log) ==
    IF out = <<>> THEN [errs |-> errs, log |-> log]
    ELSE LET o == Head(out)
             j == drule_error_search(errs, o.druleid)
         IN IF o.ip = EmptyIp
            THEN results_emit(Tail(out),
                    IF j # 0 THEN RemoveAt(errs, j) ELSE errs,
                    log \cup {[druleid |-> o.druleid, ip |-> o.ip, kind |-> "rule", cnt |-> o.cnt,
                               status |-> -1,
                               error |-> IF j # 0 THEN errs[j].error ELSE "none",
                               services |-> <<>>]})
            ELSE results_emit(Tail(out), errs,
                    log \cup {[druleid |-> o.druleid, ip |-> o.ip, kind |-> "host", cnt |-> o.cnt,
                               status |-> process_services(o.services), error |-> "none",
                               services |-> o.services]})

\* entries of failed rules dropped by process_results_incompleteresult_remove() (history)
ErrDiscards(res, cnt0, errs) ==
    {[druleid |-> k[1], ip |-> k[2], kind |-> "discard", cnt |-> cnt0[k], status |-> -1,
      error |-> "none", services |-> <<>>] : k \in {x \in Keys : res[x].present /\ x[1] \in ErrorRules(errs)}}

process_results(ord, res, cs, del, errs) ==
    LET st0 == [res |-> res, cs |-> incompletecheckscount_remove(cs, del), cnt0 |-> cs,
                res_check_total |-> 0, res_check_count |-> 0, incomplete |-> {},
                out |-> <<>>, log |-> {}]
        st1 == results_loop(ord, del, st0)
        em == results_emit(st1.out, errs, st1.log \cup ErrDiscards(st1.res, cs, errs))
    IN [res |-> incompleteresult_remove_results(st1.res, errs),
        cs |-> incompleteresult_remove_counts(st1.cs, errs),
        incomplete |-> st1.incomplete,
        errs |-> em.errs,
        log |-> em.log]

(***************************************************************************)
(* Discovery manager thread: discoverer_thread() and process_discovery().  *)
(***************************************************************************)
\* the checks and ranges of a rule as loaded from the configuration
DruleConfig(type, nips, workers_max) ==
    [type |-> type, nips |-> nips, nchecks |-> MaxChecks, workers_max |-> workers_max]

\* the configurations the model is run with: the discovery rules of the store,
\* the first rule and the rules after it
DruleStore(first, other) == [r \in Rules |-> IF r = 1 THEN first ELSE other]

DruleStores ==
    { DruleStore(DruleConfig("LDAP", MaxIps, 0), DruleConfig("LDAP", MaxIps, MaxWorkersMax)),
      DruleStore(DruleConfig("SNMPv3", 1, 0), DruleConfig("SNMPv3", 1, 0)),
      DruleStore(DruleConfig("ICMP", 1, 0), DruleConfig("SNMPv3", 1, 0)),
      DruleStore(DruleConfig("TCP", MaxIps, MaxWorkersMax), DruleConfig("TCP", 0, 0)),
      DruleStore(DruleConfig("ICMP", 1, 0), DruleConfig("LDAP", MaxIps, 0)) }

\* process_rule(): the capacity left after the checks of the rule were counted
process_rule_capacity(cfg, capacity) ==
    IF cfg.nips * cfg.nchecks >= capacity THEN 0 ELSE capacity - cfg.nips * cfg.nchecks

\* process_rule(): the tasks of the rule; one task per (ip, check) for a sync
\* check, one range task per check for an async check
process_rule_tasks(cfg) ==
    IF cfg.nips = 0 THEN <<>>
    ELSE IF ~dcheck_is_async(cfg.type)
    THEN [i \in 1..(cfg.nips * cfg.nchecks) |->
            [id |-> i, ip |-> ((i - 1) % cfg.nips) + 1, cnt |-> 1]]
    ELSE [i \in 1..cfg.nchecks |-> [id |-> i, ip |-> 0, cnt |-> cfg.nips]]

\* process_rule(): the check counts per ip of the rule
process_rule_check_counts(cc, r, cfg) ==
    [k \in Keys |-> IF k[1] = r /\ k[2] \in 1..cfg.nips THEN cfg.nchecks ELSE cc[k]]

\* discoverer_job_create()
discoverer_job_create(r, cfg) ==
    [live |-> TRUE, status |-> "queued", workers_used |-> 0, workers_max |-> cfg.workers_max,
     type |-> cfg.type, nips |-> cfg.nips, tasks |-> process_rule_tasks(cfg),
     drule_revision |-> rev[r]]

\* the capacity of the queue left for the rule, less the checks of the jobs
\* created earlier in the same cycle
queue_capacity_stale(capacity, checks) == capacity
queue_capacity_local(capacity, checks) == USub(capacity, checks)

AfterDiscovery(errs, jbs) ==
    IF errs # {} THEN "err" ELSE IF jbs # <<>> THEN "cnt" ELSE "rev_lock"

\* zbx_dc_drule_revisions_get(), then discoverer_queue_lock(); the revision of at
\* most one rule changed since the last cycle (a change of a rule without a tracked
\* job has no effect on the engine and is left out)
SchedRevLock ==
    /\ spc = "rev_lock"
    /\ queueLock = NoThread
    /\ queueLock' = SchedId
    /\ \E ch \in {0} \cup {r \in Rules : job[r].live /\ revs < MaxRev} :
         /\ rev' = [r \in Rules |-> IF r = ch THEN rev[r] + 1 ELSE rev[r]]
         /\ is_drules_rev_updated' = (ch # 0)
         /\ revs' = IF ch # 0 THEN revs + 1 ELSE revs
    /\ spc' = "rev_cs"
    /\ lastDrain' = {}
    /\ lastQueue' = NoQueue
    /\ UNCHANGED <<qvars, rvars, resultsLock, wvars, del_druleids, drule_errors,
                   incomplete_druleids, due, queue_checks_count, jobs, check_counts,
                   err_druleids, events, drules, timeouts, pgsync, pgs, stop, workers_num, purged,
                   delay, ahead, overtaken, hostEvents, aborted>>

\* the tracked jobs whose rule revision changed
ChangedJobs == {r \in Rules : job[r].live /\ job[r].drule_revision # rev[r]}

RECURSIVE SumOver(_, _)
SumOver(S, f) == IF S = {} THEN 0
                 ELSE LET x == CHOOSE y \in S : TRUE IN f[x] + SumOver(S \ {x}, f)

\* revision diff under the queue mutex, and the move of queue.errors to drule_errors
SchedRevisions ==
    /\ spc = "rev_cs"
    /\ queueLock = SchedId
    /\ LET del == IF is_drules_rev_updated THEN ChangedJobs ELSE {}
           freed == SumOver(del, [r \in Rules |-> discoverer_job_tasks_free(job[r])])
       IN /\ del_druleids' = del
          /\ purged' = purged \cup del
          /\ pending' = USub(pending, freed)
          /\ job' = [r \in Rules |-> IF r \in del THEN [job[r] EXCEPT !.tasks = <<>>] ELSE job[r]]
    /\ drule_errors' = drule_errors \o qerrors
    /\ qerrors' = <<>>
    /\ queueLock' = NoThread
    /\ is_drules_rev_updated' = FALSE
    /\ spc' = "res_lock"
    /\ UNCHANGED <<queue, snmpv3_allowed_workers, rvars, resultsLock, wvars, rev,
                   incomplete_druleids, due, queue_checks_count, jobs, check_counts,
                   err_druleids, events, lastDrain, drules, timeouts, pgsync, pgs, stop, workers_num, revs,
                   hvars>>

\* pthread_mutex_lock(&manager->results_lock) of process_results()
SchedResultsLock ==
    /\ spc = "res_lock"
    /\ resultsLock = NoThread
    /\ resultsLock' = SchedId
    /\ spc' = "res_cs"
    /\ UNCHANGED <<qvars, rvars, queueLock, wvars, rev, is_drules_rev_updated, del_druleids,
                   drule_errors, incomplete_druleids, due, queue_checks_count, jobs,
                   check_counts, err_druleids, events, lastDrain, drules, timeouts, pgsync, pgs, stop, workers_num, revs, purged,
                   hvars>>

\* history: the number of host results handed to persistence per (druleid, ip),
\* counted up to 2
host_events_after(he, log) ==
    [k \in Keys |-> IF \E e \in log : e.kind = "host" /\ e.druleid = k[1] /\ e.ip = k[2]
                    THEN (IF he[k] < 2 THEN he[k] + 1 ELSE he[k])
                    ELSE he[k]]

\* process_results(); then process_discovery() starts with the first rule, or is
\* not run in this cycle
SchedProcessResults ==
    /\ spc = "res_cs"
    /\ resultsLock = SchedId
    /\ \E ord \in IterOrders :
         LET p == process_results(ord, results, counts, del_druleids, drule_errors)
         IN /\ results' = p.res
            /\ counts' = p.cs
            /\ drule_errors' = p.errs
            /\ lastDrain' = p.log
            /\ hostEvents' = host_events_after(hostEvents, p.log)
            /\ \E go \in BOOLEAN :
                 /\ due' = IF go THEN 1 ELSE 0
                 /\ spc' = IF go THEN "disc" ELSE "rev_lock"
                 /\ incomplete_druleids' = IF go THEN p.incomplete ELSE {}
    /\ resultsLock' = NoThread
    /\ del_druleids' = {}
    /\ UNCHANGED <<qvars, queueLock, wvars, rev, is_drules_rev_updated,
                   queue_checks_count, jobs, check_counts, err_druleids, events, drules, timeouts, pgsync, pgs, stop, workers_num, revs, purged,
                   delay, lastQueue, ahead, overtaken, aborted>>

NoCounts == [k \in Keys |-> NoCount]
TaskIds == 1..(MaxIps * MaxChecks)

\* discoverer_queue_append_error()
discoverer_queue_append_error(errs, r, error) == Append(errs, [druleid |-> r, error |-> error])

\* the rules of the jobs created in this cycle
NewRules(jbs) == {jbs[i].druleid : i \in 1..Len(jbs)}
NewJob(jbs, r) == (CHOOSE i \in 1..Len(jbs) : jbs[i].druleid = r)

\* the value read from delay at zbx_dc_drule_queue(): an unassigned local
\* variable holds any value
delay_read(d) ==
    IF d = UninitDelay THEN {DefaultDelay, AnyDelay} \cup {RuleDelay(r) : r \in Rules} ELSE {d}

\* the delay a rule that failed with an invalid global timeout is queued with:
\* delay still holds the update interval of the rule
timeout_delay(r) == RuleDelay(r)

\* 0 == queue_capacity_local after process_rule(): the rule is refused
rule_refused_never(left) == FALSE
rule_refused(left) == left = 0

\* one iteration of the loop of process_discovery() over the rules in the order of
\* their ids; the rule is not due, is skipped, fails or gets a job; a rule that
\* is due is queued again with zbx_dc_drule_queue() at the end of the iteration
SchedRule ==
    /\ spc = "disc"
    /\ queueLock = NoThread
    /\ LET r == due
           found == job[r].live
           queue_capacity == USub(DISCOVERER_QUEUE_MAX_SIZE, pending)
           capacity_local == queue_capacity_local(queue_capacity, queue_checks_count)
           skip == found \/ r \in incomplete_druleids
           last == r = NumRules
           left == process_rule_capacity(drules[r], capacity_local)
           Queued(d, cause) ==
               /\ lastQueue' = [druleid |-> r, delay |-> d, cause |-> cause]
               /\ delay' = IF last THEN UninitDelay
                           ELSE IF cause = "skip" THEN delay
                           ELSE d
       IN /\ due' = IF last THEN 0 ELSE r + 1
          /\ \/ \* the rule is not due
                /\ UNCHANGED <<drule_errors, err_druleids, jobs, check_counts, events>>
                /\ queue_checks_count' = IF last THEN 0 ELSE queue_checks_count
                /\ lastQueue' = NoQueue
                /\ delay' = IF last THEN UninitDelay ELSE delay
             \/ \* the rule has a tracked job or results that are not complete
                /\ skip
                /\ UNCHANGED <<drule_errors, err_druleids, jobs, check_counts, events>>
                /\ queue_checks_count' = IF last THEN 0 ELSE queue_checks_count
                /\ \E d \in delay_read(delay) : Queued(d, "skip")
             \/ \* invalid update interval
                /\ ~skip
                /\ events < MaxEvents
                /\ events' = events + 1
                /\ drule_errors' = discoverer_queue_append_error(drule_errors, r, "delay")
                /\ err_druleids' = err_druleids \cup {r}
                /\ UNCHANGED <<jobs, check_counts>>
                /\ queue_checks_count' = IF last THEN 0 ELSE queue_checks_count
                /\ Queued(DefaultDelay, "delay")
             \/ \* invalid global timeout
                /\ ~skip
                /\ events < MaxEvents
                /\ events' = events + 1
                /\ drule_errors' = discoverer_queue_append_error(drule_errors, r, "timeout")
                /\ err_druleids' = err_druleids \cup {r}
                /\ UNCHANGED <<jobs, check_counts>>
                /\ queue_checks_count' = IF last THEN 0 ELSE queue_checks_count
                /\ Queued(timeout_delay(r), "timeout")
             \/ \* the rule is expanded: the queue is full, or the rule gets a job
                /\ ~skip
                /\ events < MaxEvents
                /\ events' = events + 1
                /\ IF rule_refused(left)
                   THEN /\ drule_errors' = discoverer_queue_append_error(drule_errors, r, "full")
                        /\ err_druleids' = err_druleids \cup {r}
                        /\ UNCHANGED <<jobs, check_counts>>
                        /\ queue_checks_count' = IF last THEN 0 ELSE queue_checks_count
                        /\ Queued(RuleDelay(r), "full")
                   ELSE /\ jobs' = Append(jobs, [druleid |-> r,
                                               job |-> discoverer_job_create(r, drules[r])])
                        /\ check_counts' = process_rule_check_counts(check_counts, r, drules[r])
                        /\ queue_checks_count' = IF last THEN 0 ELSE USub(queue_capacity, left)
                        /\ UNCHANGED <<drule_errors, err_druleids>>
                        /\ Queued(RuleDelay(r), "job")
          /\ spc' = IF last THEN AfterDiscovery(err_druleids', jobs') ELSE "disc"
          /\ incomplete_druleids' = IF last THEN {} ELSE incomplete_druleids
    /\ purged' = purged \ NewRules(jobs')
    /\ lastDrain' = {}
    /\ UNCHANGED <<qvars, rvars, queueLock, resultsLock, wvars, rev, is_drules_rev_updated,
                   del_druleids, drules, timeouts, pgsync, pgs, stop, workers_num, revs,
                   ahead, overtaken, hostEvents, aborted>>

\* under results_lock a rule-level entry (druleid, "") is registered for every
\* rule that failed in process_discovery()
SchedErrReg ==
    /\ spc = "err"
    /\ resultsLock = NoThread
    /\ results' = [k \in Keys |-> IF k[1] \in err_druleids /\ k[2] = EmptyIp
                                  THEN discover_results_host_reg(results, k)[k]
                                  ELSE results[k]]
    /\ err_druleids' = {}
    /\ spc' = AfterDiscovery({}, jobs)
    /\ lastDrain' = {}
    /\ lastQueue' = NoQueue
    /\ UNCHANGED <<qvars, counts, queueLock, resultsLock, wvars, rev, is_drules_rev_updated,
                   del_druleids, drule_errors, incomplete_druleids, due, queue_checks_count,
                   jobs, check_counts, events, drules, timeouts, pgsync, pgs, stop, workers_num, revs, purged,
                   delay, ahead, overtaken, hostEvents, aborted>>

\* zbx_hashset_insert() keeps an entry that is already there
hashset_insert_counts(cs, cc) ==
    [k \in Keys |-> IF cc[k] # NoCount /\ cs[k] = NoCount THEN cc[k] ELSE cs[k]]

\* pthread_mutex_unlock(&dmanager.results_lock) after the insertion of the check
\* counts: the holder of results_lock when the manager goes on to lock the queue
results_unlock_missing == SchedId
results_unlock_after_insert == NoThread

\* under results_lock the check counts of the new jobs are inserted into
\* incomplete_checks_count
SchedCounts ==
    /\ spc = "cnt"
    /\ resultsLock = NoThread
    /\ counts' = hashset_insert_counts(counts, check_counts)
    /\ resultsLock' = results_unlock_after_insert
    /\ spc' = "push_lock"
    /\ lastDrain' = {}
    /\ lastQueue' = NoQueue
    /\ UNCHANGED <<qvars, results, queueLock, wvars, rev, is_drules_rev_updated,
                   del_druleids, drule_errors, incomplete_druleids, due, queue_checks_count,
                   jobs, check_counts, err_druleids, events, drules, timeouts, pgsync, pgs, stop, workers_num, revs, purged,
                   delay, ahead, overtaken, hostEvents, aborted>>

\* discoverer_queue_lock() before the new jobs are pushed
SchedPushLock ==
    /\ spc = "push_lock"
    /\ queueLock = NoThread
    /\ queueLock' = SchedId
    /\ spc' = "push_cs"
    /\ UNCHANGED <<qvars, rvars, resultsLock, wvars, rev, is_drules_rev_updated, del_druleids,
                   drule_errors, incomplete_druleids, due, queue_checks_count, jobs,
                   check_counts, err_druleids, events, lastDrain, drules, timeouts, pgsync, pgs, stop, workers_num, revs, purged,
                   hvars>>

\* the sum of the check counts gathered by process_discovery()
QueuedChecks(cc) == SumOver({k \in Keys : cc[k] # NoCount}, cc)


\* the new jobs are accounted for, pushed to the queue and added to job_refs
SchedPush ==
    /\ spc = "push_cs"
    /\ queueLock = SchedId
    /\ pending' = UAdd(pending, QueuedChecks(check_counts))
    /\ queue' = queue \o [i \in 1..Len(jobs) |-> jobs[i].druleid]
    /\ job' = [r \in Rules |-> IF r \in NewRules(jobs) THEN jobs[NewJob(jobs, r)].job ELSE job[r]]
    /\ runs' = [r \in Rules |-> IF r \in NewRules(jobs) THEN [t \in TaskIds |-> 0] ELSE runs[r]]
    /\ hostEvents' = [k \in Keys |-> IF k[1] \in NewRules(jobs) THEN 0 ELSE hostEvents[k]]
    /\ aborted' = aborted \ NewRules(jobs)
    /\ pc' = NotifiedAll(pc)
    /\ queueLock' = NoThread
    /\ jobs' = <<>>
    /\ check_counts' = NoCounts
    /\ spc' = "rev_lock"
    /\ UNCHANGED <<snmpv3_allowed_workers, qerrors, rvars, resultsLock, wjob, wtask, werr, pinged,
                   rev, is_drules_rev_updated, del_druleids, drule_errors, incomplete_druleids,
                   due, queue_checks_count, err_druleids, events, lastDrain, drules, timeouts, pgsync, pgs, stop, workers_num, revs, purged,
                   delay, lastQueue, ahead, overtaken>>

\* discoverer_manager_free(): discoverer_queue_lock() after the main loop ended
ManagerFreeLock ==
    /\ spc = "rev_lock"
    /\ queueLock = NoThread
    /\ queueLock' = SchedId
    /\ spc' = "free_cs"
    /\ UNCHANGED <<qvars, rvars, resultsLock, wvars, rev, is_drules_rev_updated, del_druleids,
                   drule_errors, incomplete_druleids, due, queue_checks_count, jobs,
                   check_counts, err_druleids, events, lastDrain, drules, timeouts, pgsync, pgs, stop, workers_num,
                   revs, purged, hvars>>

\* discoverer_worker_stop() for every worker, discoverer_queue_notify_all() and
\* discoverer_queue_unlock()
ManagerFreeStop ==
    /\ spc = "free_cs"
    /\ queueLock = SchedId
    /\ stop' = [w \in Workers |-> TRUE]
    /\ pc' = NotifiedAll(pc)
    /\ queueLock' = NoThread
    /\ spc' = "join"
    /\ UNCHANGED <<qvars, rvars, resultsLock, wjob, wtask, werr, pinged, runs, sloc_but_spc,
                   events, lastDrain, drules, timeouts, pgsync, pgs, workers_num, revs, purged, hvars>>

\* discoverer_worker_destroy() for every worker: pthread_join() returns when the
\* thread has ended
ManagerJoin ==
    /\ spc = "join"
    /\ \A w \in Workers : pc[w] = "exit"
    /\ spc' = "freed"
    /\ UNCHANGED <<qvars, rvars, queueLock, resultsLock, wvars, sloc_but_spc,
                   events, lastDrain, drules, timeouts, pgsync, pgs, stop, workers_num, revs, purged, hvars>>

(***************************************************************************)
(* The loop of process_discovery() over the checks of a rule that resolves  *)
(* the global timeouts.                                                     *)
(***************************************************************************)
MaxDchecks == 3

\* the types of the checks by the global timeout they use
DcheckTypes == {"AGENT", "SNMPv3", "TCP"}

timeout_item_type(type) ==
    IF type = "AGENT" THEN "ITEM_TYPE_ZABBIX"
    ELSE IF type \in {"SNMPv1", "SNMPv2c", "SNMPv3"} THEN "ITEM_TYPE_SNMP"
    ELSE "ITEM_TYPE_SIMPLE"

ItemTypes == {timeout_item_type(t) : t \in DcheckTypes}

NoTimeouts == [dchecks |-> <<>>, valid |-> {}, tmt |-> {}, done |-> FALSE,
               failed |-> FALSE, timeout |-> <<>>, unique_dcheckid |-> 0]

\* the loop over drule->dchecks: tmt are the item types whose timeout is resolved
\* (tmt_agent, tmt_snmp, tmt_simple not 0), valid the item types for which
\* dcheck_get_timeout() succeeds; the loop ends at the first check with uniq set
RECURSIVE dchecks_timeouts(_, _, _, _)
dchecks_timeouts(dchecks, i, valid, st) ==
    IF i > Len(dchecks) THEN st
    ELSE LET it == timeout_item_type(dchecks[i].type)
         IN IF it \notin st.tmt /\ it \notin valid
            THEN [st EXCEPT !.failed = TRUE]
            ELSE LET st1 == [st EXCEPT !.tmt = @ \cup {it}, !.timeout[i] = it]
                 IN IF dchecks[i].uniq # 0
                    THEN [st1 EXCEPT !.unique_dcheckid = i]
                    ELSE dchecks_timeouts(dchecks, i + 1, valid, st1)

\* the checks of a rule: their types and uniq flags
DcheckLists ==
    UNION {[1..n -> [type : DcheckTypes, uniq : {0, 1}]] : n \in 1..MaxDchecks}

(***************************************************************************)
(* Proxy group service: pg_get_proxy_sync_data().                          *)
(***************************************************************************)
\* proxy->deleted_group_hosts: hosts with the hostmap revision of their removal
DeletedHostLists ==
    UNION {[1..n -> [hostid : {0}, revision : 1..MaxRevision]] : n \in 0..MaxDeleted}
WithHostids(v) == [i \in 1..Len(v) |-> [v[i] EXCEPT !.hostid = i]]

\* the request (proxy_hostmap_revision), the clock, and what the cache holds for
\* the proxy: whether it is cached and has a group, the hostmap revision of the
\* group, the time of the last sync and the deleted hosts
SyncInputs ==
    [cached : BOOLEAN, grouped : BOOLEAN,
     proxy_hostmap_revision : 0..MaxRevision, hostmap_revision : 0..MaxRevision,
     now : 0..MaxTime, sync_time : 0..MaxTime,
     deleted_group_hosts : {WithHostids(v) : v \in DeletedHostLists}]

NoReply == [mode |-> "none", hostmap_revision |-> 0, hostids |-> <<>>]

\* zbx_vector_pg_host_remove_noorder(): the last element takes the place of
\* the removed one
remove_noorder(v, i) ==
    LET rest == SubSeq(v, 1, Len(v) - 1)
    IN IF i = Len(v) THEN rest ELSE [rest EXCEPT ![i] = v[Len(v)]]

\* the proxy has the removal of the host already
deleted_host_synced_strict(h, revision) == h.revision < revision
deleted_host_synced(h, revision) == h.revision <= revision

\* the loop over proxy->deleted_group_hosts
RECURSIVE deleted_hosts_prune(_, _, _)
deleted_hosts_prune(v, i, revision) ==
    IF i > Len(v) THEN v
    ELSE IF deleted_host_synced(v[i], revision)
         THEN deleted_hosts_prune(remove_noorder(v, i), i, revision)
         ELSE deleted_hosts_prune(v, i + 1, revision)

proxy_sync_mode(p) ==
    IF \/ 0 = p.proxy_hostmap_revision
       \/ p.proxy_hostmap_revision > p.hostmap_revision
       \/ SEC_PER_DAY <= p.now - p.sync_time
    THEN "FULL"
    ELSE IF p.proxy_hostmap_revision < p.hostmap_revision THEN "PARTIAL"
    ELSE "NONE"

\* the reply and the proxy as the function leaves it
pg_get_proxy_sync_data(p) ==
    IF p.cached /\ p.grouped
    THEN LET mode == proxy_sync_mode(p)
             hosts == IF mode = "PARTIAL"
                      THEN deleted_hosts_prune(p.deleted_group_hosts, 1, p.proxy_hostmap_revision)
                      ELSE p.deleted_group_hosts
         IN [proxy |-> [p EXCEPT !.deleted_group_hosts = hosts, !.sync_time = p.now],
             reply |-> [mode |-> mode, hostmap_revision |-> p.hostmap_revision,
                        hostids |-> IF mode = "PARTIAL"
                                    THEN [i \in 1..Len(hosts) |-> hosts[i].hostid]
                                    ELSE <<>>]]
    ELSE [proxy |-> p, reply |-> [NoReply EXCEPT !.mode = "NONE"]]

NoSync == [request |-> [cached |-> FALSE, grouped |-> FALSE,
                        proxy_hostmap_revision |-> 0, hostmap_revision |-> 0,
                        now |-> 0, sync_time |-> 0, deleted_group_hosts |-> <<>>],
           proxy |-> [cached |-> FALSE, grouped |-> FALSE,
                      proxy_hostmap_revision |-> 0, hostmap_revision |-> 0,
                      now |-> 0, sync_time |-> 0, deleted_group_hosts |-> <<>>],
           reply |-> NoReply]

(***************************************************************************)
(* Proxy group service: pg_service_init() and pg_service_entry().          *)
(***************************************************************************)
\* the requests of pg_service_entry(); "none" is a zbx_ipc_service_recv() that
\* timed out
PgMessages == {"HOST_PGROUP_UPDATE", "GET_PROXY_SYNC_DATA", "GET_STATS",
               "PROXY_LASTACCESS", "STOP"}

\* the service before pg_service_init(): init is the position of
\* pg_service_init(), ret its local variable and result what it returned; entry
\* is the position of the service thread; early tells that the thread handled a
\* request while pgs->cache was not set
NoService == [init |-> "start", service |-> "none", thread |-> "none",
              cache |-> "unset", error |-> FALSE, ret |-> "FAIL", result |-> "none",
              entry |-> "none", message |-> "none", handled |-> 0, early |-> FALSE]

\* the return statement of pg_service_init()
pg_service_init_result(ret) == "SUCCEED"

(***************************************************************************)
(* Specification.                                                          *)
(***************************************************************************)
\* the engine after discoverer_manager_init(): no job, idle workers
Idle ==
    /\ queue = <<>>
    /\ pending = 0
    /\ snmpv3_allowed_workers = SNMPV3_WORKERS_MAX
    /\ qerrors = <<>>
    /\ job = [r \in Rules |-> NoJob]
    /\ queueLock = NoThread
    /\ resultsLock = NoThread
    /\ pc = [w \in Workers |-> "wait"]
    /\ wjob = [w \in Workers |-> 0]
    /\ wtask = [w \in Workers |-> NoTask]
    /\ werr = [w \in Workers |-> FALSE]
    /\ runs = [r \in Rules |-> [t \in TaskIds |-> 0]]
    /\ rev = [r \in Rules |-> 0]
    /\ is_drules_rev_updated = FALSE
    /\ incomplete_druleids = {}
    /\ queue_checks_count = 0
    /\ jobs = <<>>
    /\ check_counts = NoCounts
    /\ err_druleids = {}
    /\ events = 0
    /\ revs = 0
    /\ purged = {}
    /\ lastDrain = {}
    /\ delay = UninitDelay
    /\ lastQueue = NoQueue
    /\ ahead = [r \in Rules |-> {}]
    /\ overtaken = {}
    /\ hostEvents = [k \in Keys |-> 0]
    /\ aborted = {}
    /\ stop = [w \in Workers |-> FALSE]
    /\ workers_num = NumWorkers
    /\ pinged = [w \in Workers |-> {}]

Init ==
    /\ Idle
    /\ drules \in DruleStores
    /\ results = [k \in Keys |-> NoResult]
    /\ counts = NoCounts
    /\ spc = "rev_lock"
    /\ due = 0
    /\ del_druleids = {}
    /\ drule_errors = <<>>
    /\ timeouts = NoTimeouts
    /\ pgsync = NoSync
    /\ pgs = NoService

Worker(w) ==
    \/ WorkerWait(w)
    \/ WorkerPopEmpty(w)
    \/ WorkerDispatch(w)
    \/ WorkerProbeFail(w)
    \/ WorkerCommit(w)
    \/ WorkerFinish(w)
    \/ WorkerRegLock(w)
    \/ WorkerReg(w)

Scheduler ==
    \/ SchedRevLock
    \/ SchedRevisions
    \/ SchedResultsLock
    \/ SchedProcessResults
    \/ SchedRule
    \/ SchedErrReg
    \/ SchedCounts
    \/ SchedPushLock
    \/ SchedPush

Next == Scheduler \/ \E w \in Workers : Worker(w)

Spec == Init /\ [][Next]_vars

(***************************************************************************)
(* The engine run with an icmp rule whose range holds more than one         *)
(* address: one task sweeps the whole range.                                *)
(***************************************************************************)
DruleStoresSweep ==
    { DruleStore(DruleConfig("ICMP", MaxIps, 0), DruleConfig("TCP", 1, 0)) }

InitSweep ==
    /\ Idle
    /\ drules \in DruleStoresSweep
    /\ results = [k \in Keys |-> NoResult]
    /\ counts = NoCounts
    /\ spc = "rev_lock"
    /\ due = 0
    /\ del_druleids = {}
    /\ drule_errors = <<>>
    /\ timeouts = NoTimeouts
    /\ pgsync = NoSync
    /\ pgs = NoService

SpecSweep == InitSweep /\ [][Next]_vars

(***************************************************************************)
(* The timeout loop of process_discovery() run on the checks of one rule.  *)
(***************************************************************************)
\* a rule, the global timeouts that are valid and those resolved for earlier
\* rules of the same process_discovery() call
InitTimeouts ==
    /\ Idle
    /\ drules \in DruleStores
    /\ results = [k \in Keys |-> NoResult]
    /\ counts = NoCounts
    /\ spc = "disc"
    /\ due = 1
    /\ del_druleids = {}
    /\ drule_errors = <<>>
    /\ \E l \in DcheckLists, valid \in SUBSET ItemTypes :
         \E tmt \in SUBSET valid :
            timeouts = [NoTimeouts EXCEPT !.dchecks = l, !.valid = valid, !.tmt = tmt,
                                          !.timeout = [i \in 1..Len(l) |-> "unset"]]
    /\ pgsync = NoSync
    /\ pgs = NoService

\* process_discovery() runs the loop for the rule
SchedTimeouts ==
    /\ spc = "disc"
    /\ ~timeouts.done
    /\ timeouts' = [dchecks_timeouts(timeouts.dchecks, 1, timeouts.valid, timeouts)
                        EXCEPT !.done = TRUE]
    /\ UNCHANGED <<qvars, rvars, queueLock, resultsLock, wvars, sloc, events, lastDrain,
                   drules, pgsync, pgs, revs, purged, stop, workers_num, hvars>>

SpecTimeouts == InitTimeouts /\ [][SchedTimeouts]_vars

(***************************************************************************)
(* One pass of process_results() over a result cache as the workers and    *)
(* the manager can leave it for a rule: any services per host, any         *)
(* outstanding counts, the rule deleted or failed or neither.              *)
(***************************************************************************)
MaxServices == 2

ServiceLists ==
    UNION {[1..n -> {DOBJECT_STATUS_UP, DOBJECT_STATUS_DOWN}] : n \in 0..MaxServices}

HostResults == {NoResult} \cup {[present |-> TRUE, services |-> l] : l \in ServiceLists}

InitDrain ==
    /\ Idle
    /\ drules \in DruleStores
    /\ \E rule \in {NoResult, [present |-> TRUE, services |-> <<>>]},
          hosts \in [Ips -> HostResults] :
         results = [k \in Keys |-> IF k[1] # 1 THEN NoResult
                                   ELSE IF k[2] = EmptyIp THEN rule ELSE hosts[k[2]]]
    /\ \E cnt \in [Ips -> {NoCount, 0, 1}] :
         counts = [k \in Keys |-> IF k[1] = 1 /\ k[2] # EmptyIp THEN cnt[k[2]] ELSE NoCount]
    /\ del_druleids \in {{}, {1}}
    /\ drule_errors \in {<<>>, <<[druleid |-> 1, error |-> "abort"]>>}
    /\ spc = "res_lock"
    /\ due = 0
    /\ timeouts = NoTimeouts
    /\ pgsync = NoSync
    /\ pgs = NoService

NextDrain == SchedResultsLock \/ SchedProcessResults

SpecDrain == InitDrain /\ [][NextDrain]_vars

(***************************************************************************)
(* Shutdown: the manager runs process_discovery() once, leaves its main     *)
(* loop and frees the engine, while the workers run the jobs of that cycle. *)
(***************************************************************************)
InitStop ==
    /\ Idle
    /\ drules \in DruleStores
    /\ results = [k \in Keys |-> NoResult]
    /\ counts = NoCounts
    /\ spc = "disc"
    /\ due = 1
    /\ del_druleids = {}
    /\ drule_errors = <<>>
    /\ timeouts = NoTimeouts
    /\ pgsync = NoSync
    /\ pgs = NoService

WorkerStop(w) == Worker(w) \/ WorkerExit(w)

NextStop ==
    \/ SchedRule
    \/ SchedErrReg
    \/ SchedCounts
    \/ SchedPushLock
    \/ SchedPush
    \/ ManagerFreeLock
    \/ ManagerFreeStop
    \/ ManagerJoin
    \/ \E w \in Workers : WorkerStop(w)

\* every worker thread that can take a step takes one in the end (the checks
\* end, the mutexes are released after finitely many steps), and so does the
\* manager in discoverer_manager_free()
FairStop ==
    /\ \A w \in Workers : WF_vars(WorkerStop(w))
    /\ WF_vars(ManagerFreeStop \/ ManagerJoin)

SpecStop == InitStop /\ [][NextStop]_vars /\ FairStop

(***************************************************************************)
(* The jobs of one process_discovery() call run by workers that keep         *)
(* running: the manager creates and pushes the jobs, goes through one more  *)
(* cycle when the revision of a rule changes, and then sleeps.              *)
(***************************************************************************)
\* the manager wakes up for a revision change
SchedRevChanged == SchedRevLock /\ is_drules_rev_updated'

\* process_results() in a cycle in which process_discovery() is not due
SchedDrained == SchedProcessResults /\ spc' = "rev_lock"

NextJobs ==
    \/ SchedRule
    \/ SchedErrReg
    \/ SchedCounts
    \/ SchedPushLock
    \/ SchedPush
    \/ SchedRevChanged
    \/ SchedRevisions
    \/ SchedResultsLock
    \/ SchedDrained
    \/ \E w \in Workers : Worker(w)

\* a worker thread that can take a step takes one in the end (its check ends,
\* the mutex it waits for is released), and the manager leaves the critical
\* sections it has entered: the purge and the push end, and so does every pass
\* of process_results() over the result cache, which is made under results_lock
FairJobs ==
    /\ \A w \in Workers : WF_vars(Worker(w))
    /\ WF_vars(SchedRevisions)
    /\ WF_vars(SchedPush)
    /\ []<>(spc # "res_cs")

SpecJobs == InitStop /\ [][NextJobs]_vars /\ FairJobs

(***************************************************************************)
(* The reply of the proxy group service to one sync request, for every     *)
(* state of the proxy in the cache.                                        *)
(***************************************************************************)
EngineIdle ==
    /\ Idle
    /\ drules \in DruleStoresSweep
    /\ results = [k \in Keys |-> NoResult]
    /\ counts = NoCounts
    /\ spc = "rev_lock"
    /\ due = 0
    /\ del_druleids = {}
    /\ drule_errors = <<>>
    /\ timeouts = NoTimeouts

EngineUnchanged ==
    UNCHANGED <<qvars, rvars, queueLock, resultsLock, wvars, sloc, events, lastDrain,
                drules, timeouts, revs, purged, stop, workers_num, hvars>>

InitSync ==
    /\ EngineIdle
    /\ pgs = NoService
    /\ \E p \in SyncInputs : pgsync = [request |-> p, proxy |-> p, reply |-> NoReply]

\* the service thread handles ZBX_IPC_PGM_GET_PROXY_SYNC_DATA
PgGetProxySyncData ==
    /\ pgsync.reply = NoReply
    /\ LET out == pg_get_proxy_sync_data(pgsync.proxy)
       IN pgsync' = [pgsync EXCEPT !.proxy = out.proxy, !.reply = out.reply]
    /\ UNCHANGED pgs
    /\ EngineUnchanged

SpecSync == InitSync /\ [][PgGetProxySyncData]_vars

(***************************************************************************)
(* pg_service_init() and the service thread it creates.                    *)
(***************************************************************************)
InitService ==
    /\ EngineIdle
    /\ pgsync = NoSync
    /\ pgs = NoService

\* zbx_ipc_service_start(): fails with an error message, or the service accepts
\* the connections of the clients
PgIpcServiceStart ==
    /\ pgs.init = "start"
    /\ \E ok \in BOOLEAN :
          pgs' = IF ok THEN [pgs EXCEPT !.service = "started", !.init = "create"]
                 ELSE [pgs EXCEPT !.service = "failed", !.error = TRUE, !.init = "out"]
    /\ UNCHANGED pgsync
    /\ EngineUnchanged

\* pthread_create(): fails, or pg_service_entry() starts to run
PgThreadCreate ==
    /\ pgs.init = "create"
    /\ \E ok \in BOOLEAN :
          pgs' = IF ok THEN [pgs EXCEPT !.thread = "created", !.entry = "recv", !.init = "cache"]
                 ELSE [pgs EXCEPT !.thread = "failed", !.error = TRUE, !.init = "out"]
    /\ UNCHANGED pgsync
    /\ EngineUnchanged

\* pgs->cache = cache; ret = SUCCEED
PgSetCache ==
    /\ pgs.init = "cache"
    /\ pgs' = [pgs EXCEPT !.cache = "set", !.ret = "SUCCEED", !.init = "out"]
    /\ UNCHANGED pgsync
    /\ EngineUnchanged

\* out: pg_service_init() returns
PgInitReturn ==
    /\ pgs.init = "out"
    /\ pgs' = [pgs EXCEPT !.result = pg_service_init_result(pgs.ret), !.init = "returned"]
    /\ UNCHANGED pgsync
    /\ EngineUnchanged

\* zbx_ipc_service_recv() returns with the request of a client or after its
\* timeout
PgServiceRecv ==
    /\ pgs.entry = "recv"
    /\ pgs.handled < MaxRequests
    /\ \E m \in PgMessages \cup {"none"} :
          pgs' = [pgs EXCEPT !.message = m, !.entry = "switch"]
    /\ UNCHANGED pgsync
    /\ EngineUnchanged

\* the switch over message->code: every handler but that of ZBX_IPC_PGM_STOP
\* locks and reads pgs->cache
PgServiceHandle ==
    /\ pgs.entry = "switch"
    /\ pgs' = IF pgs.message = "none" THEN [pgs EXCEPT !.entry = "recv"]
              ELSE IF pgs.message = "STOP"
                   THEN [pgs EXCEPT !.entry = "out"]
              ELSE [pgs EXCEPT !.entry = "recv",
                               !.handled = pgs.handled + 1,
                               !.early = pgs.early \/ pgs.cache = "unset"]
    /\ UNCHANGED pgsync
    /\ EngineUnchanged

NextService ==
    \/ PgIpcServiceStart
    \/ PgThreadCreate
    \/ PgSetCache
    \/ PgInitReturn
    \/ PgServiceRecv
    \/ PgServiceHandle

SpecService == InitService /\ [][NextService]_vars

(***************************************************************************)
(* Properties.                                                             *)
(***************************************************************************)
\* the workers that run a task of a job of the given check type
Running(type) == {w \in Workers : pc[w] = "probe" /\ job[wjob[w]].type = type}

\* C1: at every instant at most one worker runs a task whose check type is
\* SNMPv3; workers that run other check types are not restricted by this cap.
C1_OneSnmpv3Task == Cardinality(Running("SNMPv3")) <= 1

\* a worker runs an SNMPv3 task while the job of another SNMPv3 rule, with its
\* task still to run, is in the queue and a worker is free to take it
C1_Witness ==
    /\ Cardinality(Running("SNMPv3")) = 1
    /\ \E r \in Rules : /\ job[r].live /\ job[r].type = "SNMPv3" /\ job[r].tasks # <<>>
                        /\ \E i \in 1..Len(queue) : queue[i] = r
    /\ \E w \in Workers : pc[w] = "wait"
    /\ snmpv3_allowed_workers = 0

\* C2: queue.pending_checks_count never exceeds DISCOVERER_QUEUE_MAX_SIZE, for
\* any interleaving of manager cycles, worker pops, revision purges and aborts.
C2_PendingBounded == pending <= DISCOVERER_QUEUE_MAX_SIZE

\* the jobs of two rules admitted in one cycle were pushed together
C2_Witness ==
    /\ Len(queue) = 2
    /\ \A r \in Rules : job[r].live /\ job[r].tasks # <<>> /\ job[r].workers_used = 0
    /\ pending = SumOver(Rules, [r \in Rules |-> discoverer_job_tasks_free(job[r])])
    /\ pending > 1

\* C3: for every (druleid, ip) result the drainer hands to persistence the host
\* status is Up if and only if at least one service of the result is Up; a result
\* without services or with only Down services gives Down.
C3_HostStatus ==
    \A e \in lastDrain :
        e.kind = "host" =>
            e.status = IF \E i \in 1..Len(e.services) : e.services[i] = DOBJECT_STATUS_UP
                       THEN DOBJECT_STATUS_UP ELSE DOBJECT_STATUS_DOWN

\* one pass emitted a host that is Up with a Down service listed first and a host
\* that is Down
C3_Witness ==
    \E a, b \in lastDrain :
        /\ a.kind = "host" /\ a.status = DOBJECT_STATUS_UP
        /\ a.services = <<DOBJECT_STATUS_DOWN, DOBJECT_STATUS_UP>>
        /\ b.kind = "host" /\ b.status = DOBJECT_STATUS_DOWN /\ b.services # <<>>

\* the pass of process_results() is the step that leaves its critical section
DrainStep == spc = "res_cs" /\ spc' # "res_cs"

\* C4: the drainer never moves an entry out of the result cache for emission
\* while the outstanding count of its (druleid, ip) is non-zero; the entries it
\* removes with a non-zero count are those of deleted or failed rules, and they
\* are discarded without a host or rule event.
C4_DrainOnlyComplete ==
    [][DrainStep =>
        \A e \in lastDrain' :
            /\ results[<<e.druleid, e.ip>>].present
            /\ ~results'[<<e.druleid, e.ip>>].present
            /\ e.cnt = counts[<<e.druleid, e.ip>>]
            /\ (e.cnt # NoCount /\ e.cnt # 0) =>
                  /\ e.kind = "discard"
                  /\ e.druleid \in del_druleids \cup ErrorRules(drule_errors)
                  /\ ~\E h \in lastDrain' : /\ h.druleid = e.druleid /\ h.ip = e.ip
                                            /\ h.kind # "discard"]_vars

\* one pass discarded an entry with an outstanding count of a failed rule and
\* emitted a complete host of the same rule
C4_Witness ==
    \E d, h \in lastDrain :
        /\ d.kind = "discard" /\ d.cnt = 1
        /\ h.kind = "host" /\ h.cnt = 0

\* the rule has no job, none being created, and nothing of it is left to drain
RuleDrained(r) ==
    /\ ~job[r].live
    /\ r \notin NewRules(jobs)
    /\ \A k \in Keys : k[1] = r => ~results[k].present

\* no revision change, abort or rule error took part in the run so far
NoFailure ==
    /\ revs = 0
    /\ qerrors = <<>>
    /\ drule_errors = <<>>
    /\ \A w \in Workers : ~werr[w]

\* C5: once every task of the job of a rule has run to completion and the drainer
\* has run, the outstanding map holds no entry with a non-zero count for the rule.
C5_NoOutstandingAfterDrain ==
    \A r \in Rules :
        (NoFailure /\ RuleDrained(r)) =>
            \A k \in Keys : k[1] = r => counts[k] \in {NoCount, 0}

\* the keys a task commits to
TaskKeys(r, task) ==
    IF task.ip # 0 THEN {<<r, task.ip>>} ELSE {<<r, ip>> : ip \in 1..job[r].nips}

\* the worker ends its check: with a commit, or with none
CheckEnds(w) == pc[w] = "probe" /\ pc'[w] = "finish"

\* C6: a commit of a probe result that finds no outstanding entry for its key
\* changes neither the results nor the outstanding map and raises no job error.
C6_CommitDropped ==
    [][\A w \in Workers :
          (/\ CheckEnds(w)
           /\ \A k \in TaskKeys(wjob[w], wtask[w]) : counts[k] = NoCount) =>
             /\ results' = results
             /\ counts' = counts
             /\ (~dcheck_is_async(job[wjob[w]].type) => ~werr'[w])
             /\ qerrors' = qerrors]_vars

\* a sync check ended after the outstanding entry of its key was wiped
C6_Witness ==
    \E w \in Workers :
        /\ pc[w] = "finish" /\ ~werr[w]
        /\ job[wjob[w]].type = "LDAP"
        /\ job[wjob[w]].drule_revision # rev[wjob[w]]
        /\ \A k \in Keys : k[1] = wjob[w] => counts[k] = NoCount /\ ~results[k].present
        /\ spc = "rev_lock"

\* the job of the rule was purged after a revision change, the drain pass of that
\* cycle has run, no worker is busy with the rule and no fresh job was created
PurgedAndQuiet(r) ==
    /\ r \in purged
    /\ spc \notin {"rev_cs", "res_lock", "res_cs"}
    /\ r \notin del_druleids
    /\ \A w \in Workers : wjob[w] # r

\* C7 as stated: after the purge of R and the end of the in-flight worker the
\* results map holds no entry whose druleid is R, until a fresh job is created.
C7_NoEntryAfterPurge ==
    \A r \in Rules : PurgedAndQuiet(r) => \A k \in Keys : k[1] = r => ~results[k].present

\* C7 amended: after the purge of R and the end of the in-flight worker the
\* results map holds no host entry (non-empty ip) of R until a fresh job is
\* created; the rule-level entry registered when the job is removed may be there.
C7_NoHostEntryAfterPurge ==
    \A r \in Rules :
        PurgedAndQuiet(r) => \A k \in Keys : (k[1] = r /\ k[2] # EmptyIp) => ~results[k].present

\* the purged job is gone after its in-flight check ended, the rule-level entry
\* is registered
C7_Witness ==
    \E r \in Rules :
        /\ PurgedAndQuiet(r)
        /\ ~job[r].live
        /\ results[<<r, EmptyIp>>].present
        /\ drules[r].type = "LDAP"

\* C8 as stated: no thread holds the queue lock and the results lock at once.
C8_NeverBothLocks == ~(queueLock # NoThread /\ queueLock = resultsLock)

\* C8 amended: the manager never holds both locks; a worker holds both only to
\* register the rule-level entry of a job it removes, taking the results lock
\* inside the queue lock; no thread takes the queue lock inside the results lock.
C8_LockNesting ==
    [][(queueLock' # NoThread /\ queueLock' = resultsLock') =>
          /\ queueLock' \in Workers
          /\ queueLock = queueLock'
          /\ pc'[queueLock'] = "reg_cs"]_vars

\* a worker holds both locks while the manager waits for one of them
C8_Witness ==
    \E w \in Workers :
        /\ queueLock = w /\ resultsLock = w /\ pc[w] = "reg_cs"
        /\ spc \in {"res_lock", "err", "cnt"}

\* C9: a worker never holds the queue lock while it runs a probe: the lock is
\* released before the check starts and taken again only after it returned.
C9_NoQueueLockInProbe ==
    \A w \in Workers : pc[w] \in {"probe", "finish"} => queueLock # w

\* a worker runs a check while another thread holds the queue lock
C9_Witness ==
    \E w \in Workers : pc[w] = "probe" /\ queueLock \notin {w, NoThread}

\* C10: each task of a job is dispatched to exactly one worker and run at most
\* once; two workers never run the same task.
C10_TaskRunOnce ==
    /\ \A r \in Rules : \A t \in TaskIds : runs[r][t] <= 1
    /\ \A w1, w2 \in Workers :
          (w1 # w2 /\ pc[w1] = "probe" /\ pc[w2] = "probe" /\ wjob[w1] = wjob[w2]) =>
              wtask[w1].id # wtask[w2].id

\* two workers run the two tasks of one job at the same time
C10_Witness ==
    \E w1, w2 \in Workers :
        /\ w1 # w2 /\ pc[w1] = "probe" /\ pc[w2] = "probe"
        /\ wjob[w1] = wjob[w2]
        /\ wtask[w1].id # wtask[w2].id
        /\ runs[wjob[w1]][wtask[w1].id] = 1 /\ runs[wjob[w1]][wtask[w2].id] = 1

\* the job of the rule is in the queue
InQueue(r) == \E i \in 1..Len(queue) : queue[i] = r

\* C11: whenever the queue lock is free, a tracked job is in the queue if and
\* only if its status is Queued; a Waiting or Removing job is not in the queue.
C11_QueuedIffInQueue ==
    queueLock = NoThread =>
        \A r \in Rules : job[r].live => (InQueue(r) <=> job[r].status = "queued")

\* with the queue lock free, one tracked job waits for a worker slot outside the
\* queue while another one is queued
C11_Witness ==
    /\ queueLock = NoThread
    /\ \E r1, r2 \in Rules :
         /\ job[r1].live /\ job[r1].status = "waiting" /\ ~InQueue(r1)
         /\ job[r2].live /\ job[r2].status = "queued" /\ InQueue(r2)

\* the worker pops a task of the job of rule r and pushes the job back
Requeued(w, r) ==
    /\ pc[w] # "probe" /\ pc'[w] = "probe" /\ wjob'[w] = r
    /\ job'[r].status = "queued"

RuleCapacityLeft(r) ==
    process_rule_capacity(drules[r],
        queue_capacity_local(USub(DISCOVERER_QUEUE_MAX_SIZE, pending), queue_checks_count))

\* the checks the rule expands to
RuleChecks(r) == drules[r].nips * drules[r].nchecks

\* the iteration of process_discovery() that expands rule r
Expanded(r) ==
    /\ spc = "disc" /\ due = r
    /\ lastQueue'.druleid = r /\ lastQueue'.cause \in {"full", "job"}

\* the error of a rule refused for a full queue is recorded
FullError(r) ==
    \E i \in 1..Len(drule_errors) : drule_errors[i] = [druleid |-> r, error |-> "full"]

\* the manager registers the rule-level entries of the rules that failed
ErrRegStep == spc = "err" /\ spc' # "err"

CapacityLocal ==
    queue_capacity_local(USub(DISCOVERER_QUEUE_MAX_SIZE, pending), queue_checks_count)

\* C14: a rule is refused with the queue-full error only when admitting it would
\* exceed the remaining capacity; a rule whose checks fill the remaining capacity
\* exactly is admitted in full.
C14_RefusedOnlyWhenExceeding ==
    [][\A r \in Rules :
          (Expanded(r) /\ lastQueue'.cause = "full") => RuleChecks(r) > CapacityLocal]_vars

\* an error of the given kind is recorded for the rule
RuleError(r, error) ==
    \E i \in 1..Len(drule_errors) : drule_errors[i] = [druleid |-> r, error |-> error]

\* the iteration of process_discovery() in which rule r fails with the error
RuleFails(r, error) ==
    /\ spc = "disc" /\ due = r
    /\ drule_errors' = Append(drule_errors, [druleid |-> r, error |-> error])

\* the rule-level entry of the rule leaves the result cache in this step
RuleEntryLeaves(r) ==
    results[<<r, EmptyIp>>].present /\ ~results'[<<r, EmptyIp>>].present

\* C15: a due rule with an invalid update interval gets no job and nothing that
\* could become a host or service event, and is queued again at the default
\* interval; the rule-level entry registered for it is handed to persistence as
\* one rule-level event that carries the error 'invalid update interval'.
C15_InvalidDelay ==
    [][/\ \A r \in Rules :
            RuleFails(r, "delay") =>
                /\ UNCHANGED <<jobs, check_counts, job, queue, pending, results, counts>>
                /\ lastQueue' = [druleid |-> r, delay |-> DefaultDelay, cause |-> "delay"]
       /\ DrainStep =>
            \A r \in Rules :
                (RuleError(r, "delay") /\ RuleEntryLeaves(r)) =>
                    /\ \E e \in lastDrain' :
                          e.kind = "rule" /\ e.druleid = r /\ e.error = "delay"
                    /\ ~\E i \in 1..Len(drule_errors') :
                           drule_errors'[i] = [druleid |-> r, error |-> "delay"]]_vars

\* C16: a due rule that fails with an invalid global timeout gets no job, has
\* its error recorded for a rule-level event, and is queued again at the default
\* interval, as a rule with an invalid update interval is.
C16_InvalidTimeout ==
    [][\A r \in Rules :
          RuleFails(r, "timeout") =>
              /\ UNCHANGED <<jobs, check_counts, job, queue, pending, results, counts>>
              /\ err_druleids' = err_druleids \cup {r}
              /\ lastQueue' = [druleid |-> r, delay |-> DefaultDelay, cause |-> "timeout"]]_vars

\* a task of the last job of the rule was dispatched
Admitted(r) == \E t \in TaskIds : runs[r][t] > 0

\* C17: once all tasks of the job of an admitted rule have finished and the
\* drainer has run, exactly one host result was emitted for every ip of the
\* ranges of the rule, also for an ip none of whose probes answered.
C17_HostResultPerIp ==
    \A r \in Rules :
        (revs = 0 /\ r \notin aborted /\ Admitted(r) /\ RuleDrained(r)) =>
            \A ip \in 1..drules[r].nips : hostEvents[<<r, ip>>] = 1

\* the worker takes the queue lock after a check and handles its outcome
FinishStep(w) == pc[w] = "finish" /\ pc'[w] # "finish"

\* C18: a probe that fails is not an engine error: after a sync check (whose
\* service may be down) the worker records no error for the job and does not
\* abort it; the remaining tasks of the job stay in place and the job that has
\* tasks left is in the queue.
C18_ProbeFailureNoError ==
    [][\A w \in Workers :
          (FinishStep(w) /\ ~dcheck_is_async(job[wjob[w]].type)) =>
              /\ ~werr[w]
              /\ qerrors' = qerrors
              /\ pending' = pending
              /\ wjob[w] \notin aborted'
              /\ job'[wjob[w]].tasks = job[wjob[w]].tasks
              /\ job[wjob[w]].tasks # <<>> =>
                    /\ job'[wjob[w]].status = "queued"
                    /\ \E i \in 1..Len(queue') : queue'[i] = wjob[w]]_vars

\* the sync check of the first ip of a rule answered Down (nothing was committed
\* for the ip) and the worker is done with it: no error is recorded and the job,
\* with its second task, is in the queue
C18_Witness ==
    \E r \in Rules :
        /\ job[r].live /\ ~dcheck_is_async(job[r].type)
        /\ runs[r][1] = 1 /\ job[r].workers_used = 0
        /\ counts[<<r, 1>>] = 1 /\ ~results[<<r, 1>>].present
        /\ revs = 0 /\ qerrors = <<>> /\ drule_errors = <<>> /\ aborted = {}
        /\ job[r].tasks # <<>> /\ InQueue(r) /\ job[r].status = "queued"

\* a worker takes a task of a job
DispatchStep(w) == pc[w] # "probe" /\ pc'[w] = "probe"

\* C19: when a check ends with an engine error the worker aborts the job under
\* the queue lock: the error is recorded for the rule, the job keeps no task and
\* no task of it is dispatched any more, and the worker is back at the head of
\* its loop; the drain pass that finds the error of a rule leaves no entry of the
\* rule in results and in incomplete_checks_count.
C19_EngineErrorAborts ==
    [][/\ \A w \in Workers :
            (FinishStep(w) /\ werr[w]) =>
                /\ queueLock' = w
                /\ qerrors' = Append(qerrors, [druleid |-> wjob[w], error |-> "abort"])
                /\ job'[wjob[w]].tasks = <<>>
                /\ pending' = USub(pending, SumCnt(job[wjob[w]].tasks))
                /\ pc'[w] \in {"head", "reg_lock"}
       /\ \A w \in Workers : DispatchStep(w) => wjob'[w] \notin aborted
       /\ DrainStep =>
            \A k \in Keys :
                k[1] \in ErrorRules(drule_errors) =>
                    ~results'[k].present /\ counts'[k] = NoCount]_vars

\* the job of a rule was aborted and the drain pass that found its error dropped
\* the outstanding counts of the rule
C19_Witness ==
    \E r \in Rules :
        /\ r \in aborted
        /\ RuleError(r, "abort")
        /\ spc = "rev_lock" /\ lastDrain = {}
        /\ drules[r].nips = MaxIps
        /\ \A k \in Keys : k[1] = r => counts[k] = NoCount /\ ~results[k].present

\* C20: one pass of process_results() moves at most DISCOVERER_BATCH_RESULTS_NUM
\* complete results out of the result cache, whatever number of services they have.
C20_BatchLimit ==
    Cardinality({e \in lastDrain : e.kind \in {"host", "rule"}}) <= DISCOVERER_BATCH_RESULTS_NUM

\* the manager has set the stop flag of every worker and notified all waiters
StopRequested == spc = "join" /\ \A w \in Workers : stop[w]

\* C21: after shutdown has set stop on every worker and notified all waiters,
\* every worker leaves its loop and deregisters from the queue in the end, the
\* workers that waited on the empty queue and the workers in a check alike, and
\* the join of all workers returns.
C21_ShutdownTerminates ==
    StopRequested ~> (/\ spc = "freed"
                      /\ workers_num = 0
                      /\ \A w \in Workers : pc[w] = "exit")

\* stop is set while a worker runs a check of a job that has a task left; the
\* worker that waited on the queue has left already
C21_Witness ==
    /\ StopRequested
    /\ \E w1, w2 \in Workers :
          /\ pc[w1] = "probe" /\ job[wjob[w1]].tasks # <<>>
          /\ pc[w2] = "exit" /\ workers_num = NumWorkers - 1

\* C22: a due rule whose ip ranges hold no address gets no job, neither among
\* the jobs of the cycle nor in job_refs or the queue, and no event of any kind
\* is handed to persistence for it.
C22_NoJobForEmptyRange ==
    \A r \in Rules :
        drules[r].nips = 0 =>
            /\ r \notin NewRules(jobs)
            /\ ~job[r].live
            /\ ~InQueue(r)
            /\ \A e \in lastDrain : e.druleid = r => e.kind = "discard"

\* the checks of the tasks that are still in the task lists of the tracked jobs
QueuedTaskChecks ==
    SumOver({r \in Rules : job[r].live}, [r \in Rules |-> SumCnt(job[r].tasks)])

\* the checks of the tasks the workers run
InFlightChecks ==
    SumOver({w \in Workers : pc[w] \in {"probe", "finish"}},
            [w \in Workers |-> discoverer_task_check_count_get(wtask[w])])

\* C23 as stated: whenever the queue lock is free, pending_checks_count is the
\* sum of the checks of all tasks of tracked jobs that are queued or in flight.
C23_PendingCountsInFlight ==
    queueLock = NoThread => pending = QueuedTaskChecks + InFlightChecks

\* C23 amended: whenever the queue lock is free, pending_checks_count is the sum
\* of the checks of the tasks that are still in the task lists of the tracked
\* jobs; the checks of a task leave the count when the task is popped, so a task
\* in flight is not counted. Dispatch, revision purge, abort and admission keep
\* the equality.
C23_PendingIsQueuedChecks ==
    queueLock = NoThread => pending = QueuedTaskChecks

\* a worker runs a task of a job that has a task left, while the job of another
\* rule has lost its tasks to an abort or a revision purge
C23_Witness ==
    /\ queueLock = NoThread
    /\ pending > 0
    /\ \E w \in Workers : pc[w] = "probe" /\ job[wjob[w]].tasks # <<>>
    /\ \E r \in Rules : job[r].live /\ job[r].tasks = <<>> /\ (r \in aborted \/ r \in purged)

C25_TimeoutOfEveryCheck ==
    timeouts.done =>
        LET invalid(i) == timeout_item_type(timeouts.dchecks[i].type) \notin timeouts.valid
        IN /\ (\E i \in 1..Len(timeouts.dchecks) : invalid(i)) => timeouts.failed
           /\ ~timeouts.failed =>
                 \A i \in 1..Len(timeouts.dchecks) :
                     timeouts.timeout[i] = timeout_item_type(timeouts.dchecks[i].type)

\* process_discovery() creates a job for rule r in this step
JobCreated(r) == r \notin NewRules(jobs) /\ r \in NewRules(jobs')

\* C26: no new job is created for a rule while a job of the rule is still
\* tracked in job_refs or while results of the previous cycle of the rule are
\* still in the result cache, whatever the interleaving of worker commits, job
\* removal and manager cycles.
C26_NoJobWhileOutstanding ==
    [][\A r \in Rules :
          JobCreated(r) =>
              /\ ~job[r].live
              /\ \A k \in Keys : k[1] = r => ~results[k].present]_vars

\* C27: once the manager has found that the revision of the rule of a tracked
\* job changed (or that the rule is gone), no task of that job is dispatched to
\* a worker any more and no host result that a task of the old revision produced
\* is handed to persistence by the drainer: none is emitted while the rule has
\* no newer job, and none is left in the cache when the next job is created.
C27_PurgedJobSilent ==
    [][/\ \A w \in Workers : DispatchStep(w) => wjob'[w] \notin purged
       /\ \A r \in Rules :
            (JobCreated(r) /\ r \in purged) =>
                \A k \in Keys : (k[1] = r /\ k[2] # EmptyIp) => ~results[k].present
       /\ DrainStep =>
            \A e \in lastDrain' : e.kind = "host" => e.druleid \notin purged]_vars

\* the drain pass of the cycle that purged the job of a rule has discarded a
\* host result of the old revision, while a worker still runs a task of the job
C27_Witness ==
    \E r \in Rules :
        /\ r \in purged /\ job[r].live /\ job[r].tasks = <<>>
        /\ \E e \in lastDrain : e.kind = "discard" /\ e.druleid = r /\ e.ip # EmptyIp
        /\ \E w \in Workers : pc[w] = "probe" /\ wjob[w] = r

\* the errors recorded for the rule, in the order they were recorded
RECURSIVE ErrorsOf(_, _)
ErrorsOf(errs, r) ==
    IF errs = <<>> THEN <<>>
    ELSE IF Head(errs).druleid = r THEN <<Head(errs).error>> \o ErrorsOf(Tail(errs), r)
    ELSE ErrorsOf(Tail(errs), r)

\* C28: a rule-level error recorded for a rule is emitted in exactly one
\* rule-level event of the rule and leaves the pending error list with it: the
\* drain pass in which the rule-level entry of the rule leaves the result cache
\* hands it to persistence with the oldest pending error of the rule and takes
\* that error off the list, also when the batch limit is reached in the pass.
C28_ErrorEmittedOnce ==
    [][DrainStep =>
          \A r \in Rules :
              (ErrorsOf(drule_errors, r) # <<>> /\ RuleEntryLeaves(r)) =>
                  /\ \E e \in lastDrain' : /\ e.kind = "rule" /\ e.druleid = r
                                            /\ e.error = Head(ErrorsOf(drule_errors, r))
                  /\ ErrorsOf(drule_errors', r) = Tail(ErrorsOf(drule_errors, r))]_vars

\* the worker removes the job it holds: discoverer_job_remove()
RemoveStep(w) == pc[w] = "reg_cs" /\ pc'[w] # "reg_cs"

\* C29: a job is deleted only when its task list is empty and workers_used is
\* 0, and only by a worker in discoverer_job_remove(); a job in status Removing
\* is deleted by the last of its workers to finish; a worker that comes back
\* from a check finds its job allocated and tracked.
C29_JobDeletedWhenUnused ==
    [][/\ \A r \in Rules :
            (job[r].live /\ ~job'[r].live) =>
                /\ \E w \in Workers : RemoveStep(w) /\ wjob[w] = r
                /\ job[r].tasks = <<>>
                /\ job[r].workers_used = 0
                /\ \A w \in Workers : pc[w] \in {"probe", "finish"} => wjob[w] # r
       /\ \A w \in Workers :
            FinishStep(w) =>
                /\ job[wjob[w]].live
                /\ job[wjob[w]].workers_used > 0
                /\ job[wjob[w]].status = "removing" =>
                      (pc'[w] = "reg_lock" <=> job[wjob[w]].workers_used = 1)]_vars

\* the job of a rule was marked for removal while a check of it was in flight;
\* the worker of that check has finished and is about to remove the job
C29_Witness ==
    \E w \in Workers :
        /\ pc[w] = "reg_lock"
        /\ job[wjob[w]].live /\ job[wjob[w]].status = "removing"
        /\ job[wjob[w]].workers_used = 0 /\ job[wjob[w]].tasks = <<>>

\* C30: for a job with workers_max > 0 the number of workers that run its tasks
\* at the same time never exceeds workers_max; a job waits only while
\* workers_used equals workers_max, and the worker of the job that finishes puts
\* a waiting job back into the queue at once.
C30_WorkersMax ==
    [][/\ \A r \in Rules :
            (job'[r].live /\ job'[r].workers_max > 0) =>
                /\ job'[r].workers_used <= job'[r].workers_max
                /\ Cardinality({w \in Workers : pc'[w] = "probe" /\ wjob'[w] = r})
                       <= job'[r].workers_max
       /\ \A r \in Rules :
            (job'[r].live /\ job'[r].status = "waiting") =>
                /\ job'[r].workers_max > 0
                /\ job'[r].workers_used = job'[r].workers_max
       /\ \A w \in Workers :
            (FinishStep(w) /\ job[wjob[w]].status = "waiting") =>
                /\ job'[wjob[w]].status = "queued"
                /\ queue' = Append(queue, wjob[w])]_vars

\* a job with workers_max 1 waits while a worker runs one of its tasks: it has a
\* task left, it is not in the queue and the other worker is idle
C30_Witness ==
    \E r \in Rules :
        /\ job[r].live /\ job[r].workers_max = 1 /\ job[r].workers_used = 1
        /\ job[r].status = "waiting" /\ job[r].tasks # <<>> /\ ~InQueue(r)
        /\ \E w1, w2 \in Workers : /\ pc[w1] = "probe" /\ wjob[w1] = r
                                    /\ pc[w2] = "wait"

\* the outstanding count of a key stays or goes down while the entry is there
CountKept(k) == counts[k] # NoCount /\ counts'[k] # NoCount

\* C31: from its creation until it is drained the outstanding count of a
\* (druleid, ip) never increases: no decrement, by a sync check, a partial range
\* merge or a full icmp merge, is larger than the count, so the unsigned counter
\* never wraps below zero.
C31_CountNeverIncreases ==
    [][\A k \in Keys : CountKept(k) => counts'[k] <= counts[k]]_vars

\* the worker ends an icmp sweep: discover_results_merge() has run
MergeStep(w) == CheckEnds(w) /\ job[wjob[w]].type = "ICMP"

\* C32: after the full merge of a finished icmp task every ip of the range of the
\* task that had an outstanding entry and got no probe hit has an entry in the
\* results map, for the drainer to report the host as down.
C32_NoHitRegistered ==
    [][\A w \in Workers :
          MergeStep(w) =>
             \A ip \in 1..job[wjob[w]].nips :
                 counts[<<wjob[w], ip>>] \notin {NoCount, 0} =>
                     results'[<<wjob[w], ip>>].present]_vars

\* C33: every job pushed to the queue is removed from the queue and from
\* job_refs in the end, given that the checks end and the workers keep running:
\* no job stays in status waiting or removing for ever and no wake-up needed to
\* serve a job that was pushed back is lost.
C33_JobRemovedInTheEnd ==
    \A r \in Rules : job[r].live ~> ~job[r].live

\* the only task of the job of a rule with workers_max = 1 was run, the job
\* waited meanwhile, went back to the queue and was removed; the workers wait
C33_Witness ==
    \E r \in Rules :
        /\ drules[r].workers_max = 1
        /\ ~job[r].live
        /\ runs[r][1] > 0
        /\ results[<<r, EmptyIp>>].present
        /\ queue = <<>>
        /\ \A w \in Workers : pc[w] = "wait"

\* the manager pushes the new jobs: they become visible to the workers
PushStep == spc = "push_cs" /\ spc' # "push_cs"

\* the keys of the addresses of a job that is about to be pushed
NewJobKeys == {k \in Keys : k[1] \in NewRules(jobs) /\ k[2] \in 1..drules[k[1]].nips}

\* C34: the outstanding counts of all (druleid, ip) keys of a new job are in
\* incomplete_checks_count before the job becomes visible to the workers, so that
\* no task of the job can commit a result before its counts exist.
C34_CountsBeforePush ==
    [][PushStep => \A k \in NewJobKeys : counts[k] = check_counts[k]]_vars

\* the threads of the engine, and the mutex a thread is about to lock
Threads == Workers \cup {SchedId}

WaitsForResultsLock(t) ==
    IF t = SchedId THEN spc \in {"res_lock", "err", "cnt"}
    ELSE pc[t] \in {"probe", "reg_lock"}

WaitsForQueueLock(t) ==
    IF t = SchedId THEN spc \in {"rev_lock", "disc", "push_lock"}
    ELSE pc[t] \in {"woken", "finish"}

\* C35: the engine never deadlocks on its two mutexes: in no reachable state a
\* thread that holds the queue mutex is blocked on results_lock while the holder
\* of results_lock is blocked on the queue mutex.
C35_NoLockCycle ==
    ~\E a, b \in Threads :
        /\ a # b
        /\ queueLock = a /\ WaitsForResultsLock(a)
        /\ resultsLock = b /\ WaitsForQueueLock(b)

\* a worker that removes a job holds the queue mutex and is blocked on
\* results_lock, which the manager holds in process_results(), while the other
\* worker is blocked on the queue mutex
C35_Witness ==
    \E w, v \in Workers :
        /\ queueLock = w /\ pc[w] = "reg_lock"
        /\ resultsLock = SchedId /\ spc = "res_cs"
        /\ pc[v] = "finish"

\* C36: a job is in the queue at most once at any time, whatever the
\* interleaving of the push after a task pop, the push of a waiting job and the
\* push of new jobs by the manager.
C36_QueuedOnce ==
    \A i, j \in 1..Len(queue) : queue[i] = queue[j] => i = j

\* two jobs pushed by the manager are in the queue, one of them pushed back
\* behind the other after a task pop, with its task in flight
C36_Witness ==
    /\ Len(queue) = 2
    /\ job[queue[2]].workers_used > 0
    /\ job[queue[1]].workers_used = 0 /\ job[queue[1]].tasks # <<>>
    /\ \E w \in Workers : pc[w] = "probe" /\ wjob[w] = queue[2]

\* C37: pending_checks_count never wraps below zero: the dispatch of a task, the
\* purge of a job whose revision changed and the abort of a job take off the
\* counter no more than it holds, so the counter grows in no step but the push
\* of new jobs by the manager, whatever the interleaving of these steps.
C37_PendingNeverWraps ==
    [][pending' > pending => PushStep]_vars

\* the job of a rule with two sync checks was purged after its tasks were taken
\* off the counter, while a worker runs its first task: the counter is at zero
C37_Witness ==
    \E r \in purged : \E w \in Workers :
        /\ pc[w] = "probe" /\ wjob[w] = r
        /\ job[r].live /\ job[r].tasks = <<>>
        /\ pending = 0

\* C38: the call of zbx_dc_drule_queue() that ends the iteration of a due rule
\* queues the rule with the delay of its own update interval, or with the
\* default interval when the update interval is invalid; the same for a rule
\* that is skipped because its job is still tracked or because it is in
\* incomplete_druleids.
C38_RequeuedWithOwnDelay ==
    lastQueue.cause # "none" =>
        lastQueue.delay = IF lastQueue.cause = "delay" THEN DefaultDelay
                          ELSE RuleDelay(lastQueue.druleid)

\* the hosts of the reply of a partial sync, and the deleted hosts of the proxy
\* that were removed after the revision the proxy has
ReplyHosts == {pgsync.reply.hostids[i] : i \in 1..Len(pgsync.reply.hostids)}
NewerDeletedHosts ==
    {pgsync.request.deleted_group_hosts[i].hostid :
        i \in {j \in 1..Len(pgsync.request.deleted_group_hosts) :
                 pgsync.request.deleted_group_hosts[j].revision
                     > pgsync.request.proxy_hostmap_revision}}

\* C39: the reply to the sync request of a proxy that is cached and in a group
\* has mode FULL when the hostmap revision of the proxy is 0, is greater than
\* that of the group, or the last sync is a day or more old; otherwise mode
\* PARTIAL when the revision of the proxy is lower than that of the group, with
\* exactly the deleted hosts whose revision is greater than that of the proxy,
\* each once; otherwise (equal revisions) mode NONE. The reply for a proxy that
\* is not cached or is in no group has mode NONE and hostmap revision 0.
C39_SyncMode ==
    pgsync.reply # NoReply =>
        LET p == pgsync.request
            full == \/ p.proxy_hostmap_revision = 0
                    \/ p.proxy_hostmap_revision > p.hostmap_revision
                    \/ p.now - p.sync_time >= SEC_PER_DAY
        IN /\ ~(p.cached /\ p.grouped) =>
                 pgsync.reply.mode = "NONE" /\ pgsync.reply.hostmap_revision = 0
           /\ (p.cached /\ p.grouped /\ full) => pgsync.reply.mode = "FULL"
           /\ (p.cached /\ p.grouped /\ ~full
                   /\ p.proxy_hostmap_revision < p.hostmap_revision) =>
                 /\ pgsync.reply.mode = "PARTIAL"
                 /\ ReplyHosts = NewerDeletedHosts
                 /\ Len(pgsync.reply.hostids) = Cardinality(NewerDeletedHosts)
           /\ (p.cached /\ p.grouped /\ ~full
                   /\ p.proxy_hostmap_revision = p.hostmap_revision) =>
                 pgsync.reply.mode = "NONE"

\* a partial sync of a proxy with two deleted hosts: the first was removed at
\* the revision the proxy has and is left out, the second later and is listed
C39_Witness ==
    /\ pgsync.reply.mode = "PARTIAL"
    /\ Len(pgsync.request.deleted_group_hosts) = MaxDeleted
    /\ pgsync.request.deleted_group_hosts[1].revision = pgsync.request.proxy_hostmap_revision
    /\ pgsync.reply.hostids = <<MaxDeleted>>

\* C40: pg_service_init() returns FAIL, with an error message, when the IPC
\* service cannot be started or the thread cannot be created, and SUCCEED only
\* when both succeeded; the service thread handles no request before
\* pgs->cache is set.
C40_InitResult ==
    /\ pgs.init = "returned" =>
          /\ pgs.result = "FAIL" <=> (pgs.service = "failed" \/ pgs.thread = "failed")
          /\ pgs.result = "FAIL" => pgs.error
          /\ pgs.result = "SUCCEED" => (pgs.service = "started" /\ pgs.thread = "created")
    /\ ~pgs.early

====
